---- MODULE Spec2Model ----
(***************************************************************************)
(* Model of the tiny-expert pipeline:                                      *)
(*   - pipeline/chunker.py      chunk_sections          (SpecChunk)        *)
(*   - pipeline/answer_gen.py   retrieve_relevant_chunks (SpecRetrieve)    *)
(*   - app.py                   the two streamed batches (SpecBatch, one   *)
(*                              at a time; SpecConcurrent, side by side)   *)
(*   - app.py, database.py      upload, parse and delete of sources        *)
(*                              (SpecSources); questions, answers and      *)
(*                              their review (SpecReview)                  *)
(*   - question_gen.py,         the two cost estimates (SpecEstimate)      *)
(*     answer_gen.py                                                       *)
(* Each specification drives one part; the variables of the other parts    *)
(* stay at their idle values.                                              *)
(***************************************************************************)
EXTENDS Integers, Sequences, FiniteSets, TLC

VARIABLES
    \* ---- chunk_sections (pipeline/chunker.py) ----
    sections,        \* argument: sequence of [chapter, section, text]
    source_id,       \* argument
    target_tokens,   \* argument
    overlap_tokens,  \* argument
    chunks,          \* local list `chunks`
    chunk_index,     \* local counter `chunk_index`
    sec_i,           \* position of `for section in sections` (1-based)
    start,           \* local `start` of the while loop
    cpc,             \* control point: "idle", "for", "while", "returned"
    \* ---- retrieve_relevant_chunks (pipeline/answer_gen.py) ----
    q_embedding,         \* embed_texts([question_text])[0]
    all_chunks,          \* argument: sequence of [id, embedding]
    top_k,               \* argument
    original_chunk_ids,  \* argument: sequence of chunk ids
    results,             \* the returned list
    rpc,                 \* control point: "idle", "call", "returned"
    \* ---- the store (database.py) ----
    db_chunks,           \* table chunks, rows in (source_id, chunk_index) order
    db_questions,        \* table questions, rows in insertion order
    db_qa_pairs,         \* table qa_pairs, rows in insertion order
    now,                 \* the clock read by datetime.now()
    \* ---- the streamed batches (app.py), one per endpoint: each variable
    \* ---- maps "questions" and "answers" to the state of that batch
    bpc,                 \* control point of the request / event_stream
    body,                \* the request body: the ids and the key it carries
    api_key,             \* whether a key is available (request body or environment)
    items,               \* `chunks` / `questions` captured by the request
    all_chunks_b,        \* `all_chunks` captured by the answers request
    loop_i,              \* the loop variable `i`
    total,               \* local `total`
    total_done,          \* local `total_questions` / `total_answers`
    total_cost,          \* local `total_cost`, in millionths of a dollar
    errors,              \* local list `errors`
    events,              \* the events yielded to the response stream so far
    outcomes,            \* what the generative service answered, per item
    calls_in_progress,   \* generation calls started and not yet returned
    sleeps,              \* completed or started `await asyncio.sleep(1.0)`
    \* ---- sources and review (app.py, database.py) ----
    db_sources,          \* table sources, rows in insertion order
    uploads,             \* the files of UPLOAD_DIR: [id, chunks] per file
    ppc,                 \* parse_source: the source id being parsed, if any
    op,                  \* the request handled last
    \* ---- the two cost estimates ----
    est_n,               \* the item count of the first request
    est_kind,            \* which estimate is requested
    est                  \* the estimates returned so far

chunkVars == <<sections, source_id, target_tokens, overlap_tokens, chunks,
               chunk_index, sec_i, start, cpc>>

retrVars == <<q_embedding, all_chunks, top_k, original_chunk_ids, results, rpc>>

storeVars == <<db_chunks, db_questions, db_qa_pairs, now>>

batchVars == <<bpc, body, api_key, items, all_chunks_b, loop_i, total, total_done,
               total_cost, errors, events, outcomes, calls_in_progress, sleeps>>

curateVars == <<db_sources, uploads, ppc, op>>

estVars == <<est_n, est_kind, est>>

vars == <<chunkVars, retrVars, storeVars, batchVars, curateVars, estVars>>

\* what each part leaves alone
notChunk == <<retrVars, storeVars, batchVars, curateVars, estVars>>

notRetr == <<chunkVars, storeVars, batchVars, curateVars, estVars>>

notBatch == <<chunkVars, retrVars, curateVars, estVars>>

\* the sources and review requests leave the batches' locals alone
notCurate == <<chunkVars, retrVars, batchVars, estVars>>

notEst == <<chunkVars, retrVars, storeVars, batchVars, curateVars>>

-----------------------------------------------------------------------------
(* Bounds of the model *)

MaxSections == 3
MaxWords == 4
MaxTargetTokens == 2
MaxOverlapTokens == 2
MaxChunks == 6
MaxPool == 3
MaxTopK == 2
MaxItems == 3
MaxConcurrentItems == 2

-----------------------------------------------------------------------------
(* Generic helpers *)

Min(a, b) == IF a <= b THEN a ELSE b

Max(a, b) == IF a >= b THEN a ELSE b

Range(s) == {s[k] : k \in 1..Len(s)}

\* Python's seq[lo:hi] for integers lo, hi (negative indices count from the end)
PyIndex(k, n) == IF k < 0 THEN Max(k + n, 0) ELSE Min(k, n)

PySlice(s, lo, hi) == SubSeq(s, PyIndex(lo, Len(s)) + 1, PyIndex(hi, Len(s)))

-----------------------------------------------------------------------------
(* Texts.  A text is a sequence of tokens: 0 stands for a run of           *)
(* whitespace, a positive number for a word (the number tells words        *)
(* apart).                                                                 *)

IsSpace(c) == c = 0

RECURSIVE LStrip(_)
LStrip(t) == IF t # <<>> /\ IsSpace(Head(t)) THEN LStrip(Tail(t)) ELSE t

RECURSIVE RStrip(_)
RStrip(t) ==
    IF t # <<>> /\ IsSpace(t[Len(t)]) THEN RStrip(SubSeq(t, 1, Len(t) - 1)) ELSE t

\* str.strip()
Strip(t) == RStrip(LStrip(t))

\* str.split(): the words, whitespace dropped
Split(t) == SelectSeq(t, LAMBDA c : ~IsSpace(c))

\* " ".join(words): the words with one whitespace between neighbours
Join(ws) ==
    IF Len(ws) <= 1 THEN ws
    ELSE [k \in 1..(2 * Len(ws) - 1) |-> IF k % 2 = 1 THEN ws[(k + 1) \div 2] ELSE 0]

\* int(x * 0.75) for a word count x >= 0
TimesThreeQuarters(x) == (3 * x) \div 4

\* round(x / 0.75) in place of int(x / 0.75)
DivThreeQuartersRounded(x) == (8 * x + 3) \div 6

\* int(x / 0.75) for a token count x >= 0
DivThreeQuarters(x) == (4 * x) \div 3

estimate_tokens(text) == TimesThreeQuarters(Len(Split(text)))

-----------------------------------------------------------------------------
(* chunk_sections *)

\* decimal digits of n >= 0, most significant first
RECURSIVE DecDigits(_)
DecDigits(n) == IF n < 10 THEN <<n>> ELSE DecDigits(n \div 10) \o <<n % 10>>

\* format(n, "04d")
ZeroPadTo(d, w) == [k \in 1..(w - Len(d)) |-> 0] \o d
ZeroPad4(n) == IF Len(DecDigits(n)) >= 4 THEN DecDigits(n) ELSE ZeroPadTo(DecDigits(n), 4)

\* f"chunk-{source_id}-{chunk_index:04d}"
ChunkId(sid, idx) == <<"chunk", sid, ZeroPad4(idx)>>

target_words == DivThreeQuarters(target_tokens)

overlap_words == DivThreeQuarters(overlap_tokens)

MakeChunk(sid, section, text, idx) ==
    [id          |-> ChunkId(sid, idx),
     source_id   |-> sid,
     chapter     |-> section.chapter,
     section     |-> section.section,
     text        |-> text,
     token_count |-> estimate_tokens(text),
     chunk_index |-> idx]

NextChunkIndexSame(idx) == idx

\* chunk_index += 1
NextChunkIndex(idx) == idx + 1

\* len(words) <= target_words
FitsOneChunk(n, tw) == n <= tw

\* end = min(start + target_words, len(words))
WindowEnd(st, tw, n) == Min(st + tw, n)

\* if end >= len(words): break
WindowDone(end, n) == end >= n

NextStartNoOverlap(end, ow) == end

\* start = end - overlap_words
NextStart(end, ow) == end - ow

CurSection == sections[sec_i]

CurText == Strip(CurSection.text)

CurWords == Split(CurText)

\* the input texts: n words 1..n, with or without surrounding whitespace
TextOf(n, padded) ==
    LET joined == Join([k \in 1..n |-> k])
    IN  IF padded THEN <<0>> \o joined \o <<0, 0>> ELSE joined

SeqsUpTo(S, n) == UNION {[1..k -> S] : k \in 0..n}

\* the section lists: section k carries the label k, so that a chunk tells
\* which section it was sliced from
SectionInputs ==
    {[k \in 1..Len(ns) |->
        [chapter |-> "ch", section |-> k, text |-> TextOf(ns[k], padded)]] :
            ns \in SeqsUpTo(0..MaxWords, MaxSections), padded \in BOOLEAN}

ChunkIdle ==
    /\ sections = <<>>
    /\ source_id = "abc"
    /\ target_tokens = 1
    /\ overlap_tokens = 0
    /\ chunks = <<>>
    /\ chunk_index = 0
    /\ sec_i = 1
    /\ start = 0
    /\ cpc = "idle"

RetrIdle ==
    /\ q_embedding = <<>>
    /\ all_chunks = <<>>
    /\ top_k = 0
    /\ original_chunk_ids = <<>>
    /\ results = <<>>
    /\ rpc = "idle"

Batches == {"questions", "answers"}

\* no parse_source is between its two steps
NotParsing == <<>>

CurateIdle ==
    /\ db_sources = <<>>
    /\ uploads = {}
    /\ ppc = NotParsing
    /\ op = [name |-> "none", id |-> <<>>, code |-> 0]

EstIdle ==
    /\ est_n = 0
    /\ est_kind = "none"
    /\ est = <<>>

\* no batch was requested
BatchLocalsIdle ==
    /\ bpc = [b \in Batches |-> "idle"]
    /\ body = [b \in Batches |-> [ids |-> <<>>, key |-> FALSE]]
    /\ api_key = [b \in Batches |-> FALSE]
    /\ items = [b \in Batches |-> <<>>]
    /\ all_chunks_b = <<>>
    /\ loop_i = [b \in Batches |-> 0]
    /\ total = [b \in Batches |-> 0]
    /\ total_done = [b \in Batches |-> 0]
    /\ total_cost = [b \in Batches |-> 0]
    /\ errors = [b \in Batches |-> <<>>]
    /\ events = [b \in Batches |-> <<>>]
    /\ outcomes = [b \in Batches |-> <<>>]
    /\ calls_in_progress = [b \in Batches |-> 0]
    /\ sleeps = [b \in Batches |-> 0]

BatchIdle ==
    /\ CurateIdle
    /\ EstIdle
    /\ db_chunks = <<>>
    /\ db_questions = <<>>
    /\ db_qa_pairs = <<>>
    /\ now = 0
    /\ bpc = [b \in Batches |-> "idle"]
    /\ body = [b \in Batches |-> [ids |-> <<>>, key |-> FALSE]]
    /\ api_key = [b \in Batches |-> FALSE]
    /\ items = [b \in Batches |-> <<>>]
    /\ all_chunks_b = <<>>
    /\ loop_i = [b \in Batches |-> 0]
    /\ total = [b \in Batches |-> 0]
    /\ total_done = [b \in Batches |-> 0]
    /\ total_cost = [b \in Batches |-> 0]
    /\ errors = [b \in Batches |-> <<>>]
    /\ events = [b \in Batches |-> <<>>]
    /\ outcomes = [b \in Batches |-> <<>>]
    /\ calls_in_progress = [b \in Batches |-> 0]
    /\ sleeps = [b \in Batches |-> 0]

\* the defaults of chunk_sections, the values app.py calls it with
TargetTokensDefault == 1500

OverlapTokensDefault == 200

\* one long section chunked with the defaults
ScenarioWords == 26 * 100

ScenarioSections ==
    <<[chapter |-> "ch", section |-> 1, text |-> TextOf(ScenarioWords, FALSE)]>>

ChunkInit ==
    /\ RetrIdle
    /\ BatchIdle
    /\ \/ /\ sections \in SectionInputs
          /\ target_tokens \in 1..MaxTargetTokens
          /\ overlap_tokens \in 0..MaxOverlapTokens
       \/ /\ sections = ScenarioSections
          /\ target_tokens = TargetTokensDefault
          /\ overlap_tokens = OverlapTokensDefault
    /\ source_id \in {"abc"}
    /\ chunks = <<>>
    /\ chunk_index = 0
    /\ sec_i = 1
    /\ start = 0
    /\ cpc = "for"

\* `if not text: continue`
SectionSkip ==
    /\ UNCHANGED notChunk
    /\ cpc = "for"
    /\ sec_i <= Len(sections)
    /\ CurText = <<>>
    /\ sec_i' = sec_i + 1
    /\ UNCHANGED <<sections, source_id, target_tokens, overlap_tokens,
                   chunks, chunk_index, start, cpc>>

\* the section fits in one chunk
SectionFits ==
    /\ UNCHANGED notChunk
    /\ cpc = "for"
    /\ sec_i <= Len(sections)
    /\ CurText # <<>>
    /\ FitsOneChunk(Len(CurWords), target_words)
    /\ chunk_index < MaxChunks
    /\ chunks' = Append(chunks, MakeChunk(source_id, CurSection, CurText, chunk_index))
    /\ chunk_index' = NextChunkIndex(chunk_index)
    /\ sec_i' = sec_i + 1
    /\ UNCHANGED <<sections, source_id, target_tokens, overlap_tokens, start, cpc>>

\* the else branch is entered: start = 0
SectionSplit ==
    /\ UNCHANGED notChunk
    /\ cpc = "for"
    /\ sec_i <= Len(sections)
    /\ CurText # <<>>
    /\ ~FitsOneChunk(Len(CurWords), target_words)
    /\ start' = 0
    /\ cpc' = "while"
    /\ UNCHANGED <<sections, source_id, target_tokens, overlap_tokens,
                   chunks, chunk_index, sec_i>>

\* one pass of `while start < len(words)`
WindowStep ==
    /\ UNCHANGED notChunk
    /\ cpc = "while"
    /\ IF start < Len(CurWords)
       THEN LET end == WindowEnd(start, target_words, Len(CurWords))
                chunk_text == Join(PySlice(CurWords, start, end))
            IN  /\ chunk_index < MaxChunks
                /\ chunks' = Append(chunks,
                                 MakeChunk(source_id, CurSection, chunk_text, chunk_index))
                /\ chunk_index' = NextChunkIndex(chunk_index)
                /\ IF WindowDone(end, Len(CurWords))
                   THEN /\ cpc' = "for"
                        /\ sec_i' = sec_i + 1
                        /\ start' = start
                   ELSE /\ start' = NextStart(end, overlap_words)
                        /\ UNCHANGED <<cpc, sec_i>>
       ELSE /\ cpc' = "for"
            /\ sec_i' = sec_i + 1
            /\ UNCHANGED <<chunks, chunk_index, start>>
    /\ UNCHANGED <<sections, source_id, target_tokens, overlap_tokens>>

\* return chunks
ChunkReturn ==
    /\ UNCHANGED notChunk
    /\ cpc = "for"
    /\ sec_i > Len(sections)
    /\ cpc' = "returned"
    /\ UNCHANGED <<sections, source_id, target_tokens, overlap_tokens,
                   chunks, chunk_index, sec_i, start>>

ChunkNext ==
    \/ SectionSkip
    \/ SectionFits
    \/ SectionSplit
    \/ WindowStep
    \/ ChunkReturn

SpecChunk == ChunkInit /\ [][ChunkNext]_vars

-----------------------------------------------------------------------------
(* retrieve_relevant_chunks *)

RECURSIVE Dot(_, _)
Dot(a, b) == IF a = <<>> THEN 0 ELSE Head(a) * Head(b) + Dot(Tail(a), Tail(b))

\* A similarity is kept exactly, as num / sqrt(den2) with den2 > 0, in place
\* of the float the code computes.
SimLess(x, y) ==
    IF x.num < 0 /\ y.num >= 0 THEN TRUE
    ELSE IF x.num >= 0 /\ y.num < 0 THEN FALSE
    ELSE IF x.num >= 0 THEN x.num * x.num * y.den2 < y.num * y.num * x.den2
    ELSE x.num * x.num * y.den2 > y.num * y.num * x.den2

\* dot(a, b) / (|a| * |b|), and 0.0 when the norm is 0
cosine_similarity(a, b) ==
    IF Dot(a, a) * Dot(b, b) = 0
    THEN [num |-> 0, den2 |-> 1]
    ELSE [num |-> Dot(a, b), den2 |-> Dot(a, a) * Dot(b, b)]

\* `original_chunk_ids and chunk["id"] in original_chunk_ids`
IsOriginal(id, orig) == orig # <<>> /\ id \in Range(orig)

\* the loop that builds `scored`: chunks without an embedding are skipped
RECURSIVE ScoreAll(_, _, _)
ScoreAll(q, pool, orig) ==
    IF pool = <<>> THEN <<>>
    ELSE LET chunk == Head(pool)
             rest  == ScoreAll(q, Tail(pool), orig)
         IN  IF chunk.embedding = <<>> THEN rest
             ELSE <<[sim |-> cosine_similarity(q, chunk.embedding),
                     is_original |-> IsOriginal(chunk.id, orig),
                     chunk |-> chunk]>> \o rest

\* the sort key (x[1], x[0]) compared as tuples
KeyLess(x, y) ==
    \/ ~x.is_original /\ y.is_original
    \/ x.is_original = y.is_original /\ SimLess(x.sim, y.sim)

\* stable insertion of e into a list in descending key order
RECURSIVE InsertDesc(_, _)
InsertDesc(e, sorted) ==
    IF sorted = <<>> THEN <<e>>
    ELSE IF KeyLess(Head(sorted), e) THEN <<e>> \o sorted
    ELSE <<Head(sorted)>> \o InsertDesc(e, Tail(sorted))

RECURSIVE SortFrom(_, _)
SortFrom(done, todo) ==
    IF todo = <<>> THEN done ELSE SortFrom(InsertDesc(Head(todo), done), Tail(todo))

SortScoredNone(scored) == scored

\* scored.sort(key=lambda x: (x[1], x[0]), reverse=True)
SortScored(scored) == SortFrom(<<>>, scored)

IdsOf(cs) == {cs[k].id : k \in 1..Len(cs)}

RECURSIVE AddOriginalsCapped(_, _, _)
AddOriginalsCapped(res, scored, k) ==
    IF scored = <<>> \/ Len(res) >= k THEN res
    ELSE LET e == Head(scored)
         IN  IF e.is_original /\ e.chunk.id \notin IdsOf(res)
             THEN AddOriginalsCapped(Append(res, e.chunk), Tail(scored), k)
             ELSE AddOriginalsCapped(res, Tail(scored), k)

RECURSIVE AddOriginalsNoSeen(_, _, _)
AddOriginalsNoSeen(res, scored, k) ==
    IF scored = <<>> THEN res
    ELSE LET e == Head(scored)
         IN  IF e.is_original
             THEN AddOriginalsNoSeen(Append(res, e.chunk), Tail(scored), k)
             ELSE AddOriginalsNoSeen(res, Tail(scored), k)

\* first loop: every original not yet seen is added (`seen` is the set of
\* the ids in `results`)
RECURSIVE AddOriginals(_, _, _)
AddOriginals(res, scored, k) ==
    IF scored = <<>> THEN res
    ELSE LET e == Head(scored)
         IN  IF e.is_original /\ e.chunk.id \notin IdsOf(res)
             THEN AddOriginals(Append(res, e.chunk), Tail(scored), k)
             ELSE AddOriginals(res, Tail(scored), k)

RECURSIVE FillRemainingOffByOne(_, _, _)
FillRemainingOffByOne(res, scored, k) ==
    IF scored = <<>> \/ Len(res) > k THEN res
    ELSE LET e == Head(scored)
         IN  IF e.chunk.id \notin IdsOf(res)
             THEN FillRemainingOffByOne(Append(res, e.chunk), Tail(scored), k)
             ELSE FillRemainingOffByOne(res, Tail(scored), k)

\* second loop: fill with the most similar until top_k results
RECURSIVE FillRemaining(_, _, _)
FillRemaining(res, scored, k) ==
    IF scored = <<>> \/ Len(res) >= k THEN res
    ELSE LET e == Head(scored)
         IN  IF e.chunk.id \notin IdsOf(res)
             THEN FillRemaining(Append(res, e.chunk), Tail(scored), k)
             ELSE FillRemaining(res, Tail(scored), k)

retrieve_relevant_chunks(q, pool, k, orig) ==
    LET scored == SortScored(ScoreAll(q, pool, orig))
    IN  FillRemaining(AddOriginals(<<>>, scored, k), scored, k)

\* ---- inputs ----
PoolIds == {1, 2, 3}

\* <<>> stands for a missing embedding (None)
PoolEmbeddings == {<<>>, <<0, 0>>, <<1, 0>>, <<1, 1>>}

OriginalIdLists == {<<>>, <<1>>, <<1, 1>>, <<1, 2>>}

PoolChunks == [id : PoolIds, embedding : PoolEmbeddings]

\* the scenario of a pool of ten: chunk 3 has similarity exactly 0.1 to the
\* question and is the only original, the nine others score higher
ScenarioQuestion == <<1, 0, 0, 0>>

ScenarioOriginal == [id |-> 3, embedding |-> <<1, 7, 7, 1>>]

ScenarioOthers ==
    {[k \in 1..9 |-> [id |-> 10 + k, embedding |-> es[k]]] :
        es \in [1..9 -> {<<1, 0, 0, 0>>, <<1, 1, 0, 0>>}]}

InsertAt(s, pos, e) == SubSeq(s, 1, pos - 1) \o <<e>> \o SubSeq(s, pos, Len(s))

ScenarioPools == {InsertAt(o, pos, ScenarioOriginal) : o \in ScenarioOthers, pos \in 1..10}

TopKDefault == 10

RetrInit ==
    /\ ChunkIdle
    /\ BatchIdle
    /\ \/ /\ q_embedding = <<1, 0>>
          /\ all_chunks \in SeqsUpTo(PoolChunks, MaxPool)
          /\ top_k \in 0..MaxTopK
          /\ original_chunk_ids \in OriginalIdLists
       \/ /\ q_embedding = ScenarioQuestion
          /\ all_chunks \in ScenarioPools
          /\ top_k = TopKDefault
          /\ original_chunk_ids = <<ScenarioOriginal.id>>
    /\ results = <<>>
    /\ rpc = "call"

Retrieve ==
    /\ rpc = "call"
    /\ results' = retrieve_relevant_chunks(q_embedding, all_chunks, top_k, original_chunk_ids)
    /\ rpc' = "returned"
    /\ UNCHANGED <<q_embedding, all_chunks, top_k, original_chunk_ids>>
    /\ UNCHANGED notRetr

RetrNext == Retrieve

SpecRetrieve == RetrInit /\ [][RetrNext]_vars

-----------------------------------------------------------------------------
(* The store (database.py) *)

\* SELECT * FROM chunks WHERE source_id=? ORDER BY chunk_index
get_chunks_for_source(sid) == SelectSeq(db_chunks, LAMBDA c : c.source_id = sid)

\* SELECT * FROM chunks WHERE embedding IS NOT NULL ORDER BY source_id, chunk_index
get_all_chunks_with_embeddings == SelectSeq(db_chunks, LAMBDA c : c.embedding # <<>>)

\* stable insertion by date_generated
RECURSIVE InsertByDate(_, _)
InsertByDate(row, sorted) ==
    IF sorted = <<>> THEN <<row>>
    ELSE IF row.date_generated < Head(sorted).date_generated THEN <<row>> \o sorted
    ELSE <<Head(sorted)>> \o InsertByDate(row, Tail(sorted))

RECURSIVE OrderByDate(_, _)
OrderByDate(done, todo) ==
    IF todo = <<>> THEN done ELSE OrderByDate(InsertByDate(Head(todo), done), Tail(todo))

\* SELECT * FROM questions [WHERE status=?] ORDER BY date_generated
get_questions(status) ==
    OrderByDate(<<>>, IF status = "" THEN db_questions
                      ELSE SelectSeq(db_questions, LAMBDA q : q.status = status))

\* INSERT OR REPLACE: a row with the same id is replaced by the new row
InsertOrReplace(table, row) ==
    Append(SelectSeq(table, LAMBDA r : r.id # row.id), row)

RECURSIVE save_questions(_, _)
save_questions(table, qs) ==
    IF qs = <<>> THEN table
    ELSE save_questions(InsertOrReplace(table, Head(qs)), Tail(qs))

\* the qa_pairs left by save_questions: replacing a questions row deletes
\* the old row, and ON DELETE CASCADE (foreign_keys=ON) deletes its qa_pairs
save_questions_cascade(qa_table, qs) ==
    SelectSeq(qa_table, LAMBDA qa : \A k \in 1..Len(qs) : qa.question_id # qs[k].id)

\* NULL in column date_reviewed; the clock starts above it
NoDate == 0

\* the row save_qa_pair writes: qa.get("date_reviewed") of a generated pair
\* is None
QaRow(qa) ==
    [id |-> qa.id, question_id |-> qa.question_id, question |-> qa.question,
     question_type |-> qa.question_type, answer |-> qa.answer,
     answer_short |-> qa.answer_short, sources_used |-> qa.sources_used,
     category |-> qa.category, status |-> qa.status,
     date_generated |-> qa.date_generated, date_reviewed |-> NoDate]

save_qa_pair(table, qa) == InsertOrReplace(table, QaRow(qa))

\* UPDATE questions SET status=? WHERE id=?
update_question_status(table, qid, status) ==
    [k \in 1..Len(table) |->
        IF table[k].id = qid THEN [table[k] EXCEPT !.status = status] ELSE table[k]]

-----------------------------------------------------------------------------
(* The generators (pipeline/question_gen.py, pipeline/answer_gen.py) *)

\* what the generative service can answer to one request: the call raises,
\* or it returns a response text.  A response text is told by what the
\* parsers look at: whether it is wrapped in ``` fences, whether prose
\* surrounds its payload, and the payload: "none" (prose only), a JSON
\* "object", a JSON "array" of question objects (the drafts), or a JSON
\* "scalar" (a number, a string, null).
QText(j) == <<"text", j>>

ServiceError == [kind |-> "service_error"]

Text(fenced, surrounded, payload, drafts) ==
    [kind |-> "text", fenced |-> fenced, surrounded |-> surrounded,
     payload |-> payload, drafts |-> drafts]

QuestionOutcomes ==
    {ServiceError,
     Text(FALSE, TRUE, "none", <<>>),
     Text(FALSE, FALSE, "array", <<>>),
     Text(TRUE, FALSE, "array", <<QText(1), QText(2)>>),
     Text(FALSE, TRUE, "array", <<QText(1), QText(2)>>),
     Text(FALSE, FALSE, "object", <<>>)}

AnswerOutcomes ==
    {ServiceError,
     Text(FALSE, TRUE, "none", <<>>),
     Text(TRUE, TRUE, "none", <<>>),
     Text(TRUE, FALSE, "object", <<>>),
     Text(FALSE, TRUE, "object", <<>>),
     Text(FALSE, FALSE, "scalar", <<>>)}

\* the two re.sub calls: the fence lines are removed
StripFences(text) == [text EXCEPT !.fenced = FALSE]

\* json.loads(text) succeeds: the text is a JSON document and nothing else
JsonLoadsOk(text) == ~text.fenced /\ ~text.surrounded /\ text.payload # "none"

\* the value json.loads returns for a JSON document
JsonValue(text) ==
    IF text.payload = "object"
    THEN [type |-> "dict", answer |-> "parsed answer", answer_short |-> "short"]
    ELSE IF text.payload = "array"
    THEN [type |-> "list", drafts |-> text.drafts]
    ELSE [type |-> "scalar"]

\* re.search(pattern, text, re.DOTALL).group(): the payload without the
\* prose around it, for the payload the pattern looks for
Embedded(text, payload) ==
    IF text.payload = payload THEN [text EXCEPT !.surrounded = FALSE] ELSE text

\* _parse_answer_json: the decoded document; else the object embedded in
\* the text; else {"answer": text}, text being the response without fences
_parse_answer_json(raw_text) ==
    LET text == StripFences(raw_text)
    IN  IF JsonLoadsOk(text) THEN JsonValue(text)
        ELSE IF JsonLoadsOk(Embedded(text, "object"))
        THEN JsonValue(Embedded(text, "object"))
        ELSE [type |-> "dict", answer |-> text, answer_short |-> ""]

\* a parser that recovers like _parse_answer_json: no questions instead of
\* a ValueError
ParseQuestionsLenient(raw_text) ==
    LET text == StripFences(raw_text)
    IN  IF JsonLoadsOk(text) THEN JsonValue(text)
        ELSE IF JsonLoadsOk(Embedded(text, "array"))
        THEN JsonValue(Embedded(text, "array"))
        ELSE [type |-> "list", drafts |-> <<>>]

\* _parse_questions_json: the decoded document; else the array embedded in
\* the text; else ValueError
_parse_questions_json(raw_text) ==
    LET text == StripFences(raw_text)
    IN  IF JsonLoadsOk(text) THEN JsonValue(text)
        ELSE IF JsonLoadsOk(Embedded(text, "array"))
        THEN JsonValue(Embedded(text, "array"))
        ELSE [type |-> "ValueError"]

\* response.usage of a completed request
ResponseUsage == [input_tokens |-> 110, output_tokens |-> 20]

\* input_tokens * 3.0 / 1_000_000 + output_tokens * 15.0 / 1_000_000, in
\* millionths of a dollar
cost_estimate(usage) == usage.input_tokens * 3 + usage.output_tokens * 15

\* round(x, 4) of an amount in millionths of a dollar
Round4(c) == ((c + 50) \div 100) * 100

\* an identifier that also hashes the clock, as QaId does
QuestionIdWithClock(chunk_id, i, text) == <<"q", chunk_id, i, text, now>>

\* "q-" + md5(f"{chunk_id}-{i}-{text}")[:10]
QuestionId(chunk_id, i, text) == <<"q", chunk_id, i, text>>

\* "qa-" + md5(f"{question_id}-{now}")[:10]
QaId(question_id, t) == <<"qa", question_id, t>>

\* generate_questions_for_chunk; t is the clock at the call.  A decoded
\* document that is no list of objects makes the loop over it raise
\* (q.get on a key of a dict, enumerate of a number).
generate_questions_for_chunk(chunk, key, outcome, t) ==
    IF ~key
    THEN [raised |-> TRUE, error |-> "ANTHROPIC_API_KEY not set"]
    ELSE IF outcome.kind = "service_error"
    THEN [raised |-> TRUE, error |-> "service error"]
    ELSE LET questions == _parse_questions_json(outcome)
         IN  IF questions.type = "ValueError"
             THEN [raised |-> TRUE, error |-> "Could not parse questions JSON"]
             ELSE IF questions.type # "list"
             THEN [raised |-> TRUE, error |-> "AttributeError"]
             ELSE [raised |-> FALSE,
                   questions |->
                       [k \in 1..Len(questions.drafts) |->
                           [id |-> QuestionId(chunk.id, k - 1, questions.drafts[k]),
                            text |-> questions.drafts[k],
                            question_type |-> "direct",
                            category |-> "",
                            source_chunk_ids |-> <<chunk.id>>,
                            status |-> "pending_answer",
                            date_generated |-> t + k - 1]],
                   usage |-> [input_tokens |-> ResponseUsage.input_tokens,
                              output_tokens |-> ResponseUsage.output_tokens,
                              cost_estimate |-> cost_estimate(ResponseUsage)]]

\* sources_used: the chunks grouped by source id, in order of appearance
RECURSIVE GroupBySource(_, _)
GroupBySource(groups, cs) ==
    IF cs = <<>> THEN groups
    ELSE LET c == Head(cs)
             known == \E g \in Range(groups) : g.source_id = c.source_id
             added ==
                 IF known
                 THEN [k \in 1..Len(groups) |->
                         IF groups[k].source_id = c.source_id
                         THEN [groups[k] EXCEPT !.chunk_ids = Append(@, c.id)]
                         ELSE groups[k]]
                 ELSE Append(groups, [source_id |-> c.source_id, chunk_ids |-> <<c.id>>])
         IN  GroupBySource(added, Tail(cs))

\* generate_answer; t is the clock at the call.  parsed.get raises when
\* the decoded document is no dict.
generate_answer(question, cs, key, outcome, t) ==
    IF ~key
    THEN [raised |-> TRUE, error |-> "ANTHROPIC_API_KEY not set"]
    ELSE IF outcome.kind = "service_error"
    THEN [raised |-> TRUE, error |-> "service error"]
    ELSE LET parsed == _parse_answer_json(outcome)
         IN  IF parsed.type # "dict"
             THEN [raised |-> TRUE, error |-> "AttributeError"]
             ELSE [raised |-> FALSE,
                   qa |-> [id |-> QaId(question.id, t),
                           question_id |-> question.id,
                           question |-> question.text,
                           question_type |-> question.question_type,
                           answer |-> parsed.answer,
                           answer_short |-> parsed.answer_short,
                           sources_used |-> GroupBySource(<<>>, cs),
                           category |-> question.category,
                           status |-> "pending_review",
                           date_generated |-> t + 1],
                   usage |-> [input_tokens |-> ResponseUsage.input_tokens,
                              output_tokens |-> ResponseUsage.output_tokens,
                              cost_estimate |-> cost_estimate(ResponseUsage),
                              chunks_used |-> Len(cs)]]

-----------------------------------------------------------------------------
(* The streamed batches (app.py) *)

\* embed_texts([question_text])[0]: the embedding service, one vector for
\* every question text
QuestionEmbedding == <<1, 0>>

CurrentOfZeroBased(i) == i

\* 'current': i+1
CurrentOf(i) == i + 1

NeedsDelayAlways(i, n) == i < n

\* `if i < total - 1`
NeedsDelay(i, n) == i < n - 1

RecordErrorDropped(errs, entry) == errs

\* errors.append(...)
RecordError(errs, entry) == Append(errs, entry)

IsEmptyNever(xs) == FALSE

\* `if not source_ids`, `if not chunks`, `if not questions`
IsEmpty(xs) == xs = <<>>

FrameShared(b) == "questions"

\* the frame holding the locals total_questions / total_answers, total_cost
\* and errors: every call of event_stream has its own
Frame(b) == b

CountOfItems(b, r) == 1

\* total_questions += len(questions) / total_answers += 1
CountOf(b, r) == IF b = "questions" THEN Len(r.questions) ELSE 1

SuspensionPointInCall(pc) == pc \in {"in_call", "yielded", "sleep"}

\* where event_stream is suspended and the event loop runs: at a yield and
\* in `await asyncio.sleep(1.0)`; the generation call is synchronous
SuspensionPoint(pc) == pc \in {"yielded", "sleep"}

ProgressEvent(b, i, n, item, r, done, cost) ==
    IF b = "questions"
    THEN [type |-> "progress", current |-> CurrentOf(i), total |-> n,
          chunk_id |-> item.id, questions_generated |-> Len(r.questions),
          total_questions |-> done, cost_so_far |-> Round4(cost)]
    ELSE [type |-> "progress", current |-> CurrentOf(i), total |-> n,
          question |-> item.text, chunks_used |-> r.usage.chunks_used,
          total_answers |-> done, cost_so_far |-> Round4(cost)]

ErrorEntry(b, item, r) ==
    IF b = "questions"
    THEN [chunk_id |-> item.id, error |-> r.error]
    ELSE [question_id |-> item.id, error |-> r.error]

ErrorEvent(b, i, n, item, r) ==
    IF b = "questions"
    THEN [type |-> "error", current |-> CurrentOf(i), total |-> n,
          chunk_id |-> item.id, error |-> r.error]
    ELSE [type |-> "error", current |-> CurrentOf(i), total |-> n,
          question_id |-> item.id, error |-> r.error]

DoneEvent(b, done, cost, errs) ==
    IF b = "questions"
    THEN [type |-> "done", total_questions |-> done, total_cost |-> Round4(cost),
          errors |-> Len(errs)]
    ELSE [type |-> "done", total_answers |-> done, total_cost |-> Round4(cost),
          errors |-> Len(errs)]

RECURSIVE GatherChunks(_)
GatherChunks(source_ids) ==
    IF source_ids = <<>> THEN <<>>
    ELSE get_chunks_for_source(Head(source_ids)) \o GatherChunks(Tail(source_ids))

\* the locals of event_stream at its start
StartStream(b, key, its) ==
    /\ bpc' = [bpc EXCEPT ![b] = "call"]
    /\ api_key' = [api_key EXCEPT ![b] = key]
    /\ items' = [items EXCEPT ![b] = its]
    /\ loop_i' = [loop_i EXCEPT ![b] = 0]
    /\ total' = [total EXCEPT ![b] = Len(its)]
    /\ total_done' = [total_done EXCEPT ![Frame(b)] = 0]
    /\ total_cost' = [total_cost EXCEPT ![Frame(b)] = 0]
    /\ errors' = [errors EXCEPT ![Frame(b)] = <<>>]

\* HTTPException(400, ...) before any stream exists
Reject(b) ==
    /\ bpc' = [bpc EXCEPT ![b] = "rejected"]
    /\ UNCHANGED <<api_key, items, loop_i, total, total_done, total_cost, errors>>

\* no other batch is inside a (blocking) generation call
LoopIsFree(b) == \A o \in Batches \ {b} : bpc[o] # "in_call"

\* POST /api/questions/generate
generate_questions_batch(source_ids, key) ==
    /\ bpc["questions"] = "idle"
    /\ LoopIsFree("questions")
    /\ body' = [body EXCEPT !["questions"] = [ids |-> source_ids, key |-> key]]
    /\ IF IsEmpty(source_ids) \/ IsEmpty(GatherChunks(source_ids))
       THEN Reject("questions")
       ELSE StartStream("questions", key, GatherChunks(source_ids))
    /\ UNCHANGED <<all_chunks_b, events, outcomes, calls_in_progress, sleeps>>
    /\ UNCHANGED storeVars
    /\ UNCHANGED notBatch

\* the questions the answers request selects
SelectQuestions(question_ids) ==
    IF question_ids # <<>>
    THEN SelectSeq(get_questions(""), LAMBDA q : q.id \in Range(question_ids))
    ELSE get_questions("pending_answer")

\* POST /api/answers/generate
generate_answers_batch(question_ids, key) ==
    /\ bpc["answers"] = "idle"
    /\ LoopIsFree("answers")
    /\ body' = [body EXCEPT !["answers"] = [ids |-> question_ids, key |-> key]]
    /\ IF IsEmpty(SelectQuestions(question_ids))
       THEN Reject("answers") /\ UNCHANGED all_chunks_b
       ELSE /\ StartStream("answers", key, SelectQuestions(question_ids))
            /\ all_chunks_b' = get_all_chunks_with_embeddings
    /\ UNCHANGED <<events, outcomes, calls_in_progress, sleeps>>
    /\ UNCHANGED storeVars
    /\ UNCHANGED notBatch

\* the loop body reaches the generation call of item i
StartCall(b) ==
    /\ bpc[b] = "call"
    /\ loop_i[b] < total[b]
    /\ LoopIsFree(b)
    /\ bpc' = [bpc EXCEPT ![b] = "in_call"]
    /\ calls_in_progress' = [calls_in_progress EXCEPT ![b] = @ + 1]
    /\ UNCHANGED <<body, api_key, items, all_chunks_b, loop_i, total, total_done,
                   total_cost, errors, events, outcomes, sleeps>>
    /\ UNCHANGED storeVars
    /\ UNCHANGED notBatch

\* what follows the call, up to the yield, in both branches of the try
AfterCall(b, outcome, r) ==
    LET item == items[b][loop_i[b] + 1]
    IN  /\ outcomes' = [outcomes EXCEPT ![b] = Append(@, outcome)]
        /\ calls_in_progress' = [calls_in_progress EXCEPT ![b] = @ - 1]
        /\ bpc' = [bpc EXCEPT ![b] = "yielded"]
        /\ IF r.raised
           THEN /\ errors' = [errors EXCEPT ![Frame(b)] =
                                 RecordError(@, ErrorEntry(b, item, r))]
                /\ events' = [events EXCEPT ![b] =
                                 Append(@, ErrorEvent(b, loop_i[b], total[b], item, r))]
                /\ UNCHANGED <<total_done, total_cost>>
           ELSE LET done == total_done[Frame(b)] + CountOf(b, r)
                    cost == total_cost[Frame(b)] + r.usage.cost_estimate
                IN  /\ total_done' = [total_done EXCEPT ![Frame(b)] = done]
                    /\ total_cost' = [total_cost EXCEPT ![Frame(b)] = cost]
                    /\ events' = [events EXCEPT ![b] =
                                     Append(@, ProgressEvent(b, loop_i[b], total[b],
                                                             item, r, done, cost))]
                    /\ UNCHANGED errors
        /\ UNCHANGED <<body, api_key, items, all_chunks_b, loop_i, total, sleeps>>

OutcomesFor(b, all) == IF api_key[b] THEN all ELSE {[kind |-> "not_called"]}

\* generate_questions_for_chunk returns or raises, the service answering
\* with one of `all`; the try body or the except clause runs up to its yield
EndCallQuestionsOf(all) ==
    /\ bpc["questions"] = "in_call"
    /\ \E outcome \in OutcomesFor("questions", all) :
        LET chunk == items["questions"][loop_i["questions"] + 1]
            r == generate_questions_for_chunk(chunk, api_key["questions"], outcome, now)
        IN  /\ AfterCall("questions", outcome, r)
            /\ IF r.raised
               THEN UNCHANGED <<db_questions, db_qa_pairs, now>>
               ELSE /\ db_questions' = save_questions(db_questions, r.questions)
                    /\ db_qa_pairs' = save_questions_cascade(db_qa_pairs, r.questions)
                    /\ now' = now + Len(r.questions)
    /\ UNCHANGED db_chunks
    /\ UNCHANGED notBatch

EndCallQuestions == EndCallQuestionsOf(QuestionOutcomes)

\* retrieve_relevant_chunks and generate_answer return or raise, the
\* service answering with one of `all`; the try body or the except clause
\* runs up to its yield
EndCallAnswersOf(all) ==
    /\ bpc["answers"] = "in_call"
    /\ \E outcome \in OutcomesFor("answers", all) :
        LET question == items["answers"][loop_i["answers"] + 1]
            relevant == retrieve_relevant_chunks(QuestionEmbedding, all_chunks_b,
                                                 TopKDefault, question.source_chunk_ids)
            r == generate_answer(question, relevant, api_key["answers"], outcome, now)
        IN  /\ AfterCall("answers", outcome, r)
            /\ IF r.raised
               THEN UNCHANGED <<db_questions, db_qa_pairs, now>>
               ELSE /\ db_qa_pairs' = save_qa_pair(db_qa_pairs, r.qa)
                    /\ db_questions' =
                           update_question_status(db_questions, question.id, "answered")
                    /\ now' = now + 2
    /\ UNCHANGED db_chunks
    /\ UNCHANGED notBatch

EndCallAnswers == EndCallAnswersOf(AnswerOutcomes)

\* the loop moves on: the next item, or the 'done' event after the last one
AdvanceLoop(b) ==
    IF loop_i[b] + 1 < total[b]
    THEN /\ loop_i' = [loop_i EXCEPT ![b] = @ + 1]
         /\ bpc' = [bpc EXCEPT ![b] = "call"]
         /\ UNCHANGED events
    ELSE /\ events' = [events EXCEPT ![b] =
                          Append(@, DoneEvent(b, total_done[Frame(b)],
                                              total_cost[Frame(b)], errors[Frame(b)]))]
         /\ bpc' = [bpc EXCEPT ![b] = "finished"]
         /\ UNCHANGED loop_i

\* the consumer takes the event and the generator runs on from its yield
Resume(b) ==
    /\ bpc[b] = "yielded"
    /\ LoopIsFree(b)
    /\ IF NeedsDelay(loop_i[b], total[b])
       THEN /\ bpc' = [bpc EXCEPT ![b] = "sleep"]
            /\ sleeps' = [sleeps EXCEPT ![b] = @ + 1]
            /\ UNCHANGED <<loop_i, events>>
       ELSE AdvanceLoop(b) /\ UNCHANGED sleeps
    /\ UNCHANGED <<body, api_key, items, all_chunks_b, total, total_done, total_cost,
                   errors, outcomes, calls_in_progress>>
    /\ UNCHANGED storeVars
    /\ UNCHANGED notBatch

\* asyncio.sleep(1.0) is over
Wake(b) ==
    /\ bpc[b] = "sleep"
    /\ LoopIsFree(b)
    /\ AdvanceLoop(b)
    /\ UNCHANGED <<body, api_key, items, all_chunks_b, total, total_done, total_cost,
                   errors, outcomes, calls_in_progress, sleeps>>
    /\ UNCHANGED storeVars
    /\ UNCHANGED notBatch

\* the client goes away: the response task is cancelled where event_stream
\* is suspended, and the generator is never resumed
Disconnect(b) ==
    /\ SuspensionPoint(bpc[b])
    /\ LoopIsFree(b)
    /\ bpc' = [bpc EXCEPT ![b] = "cancelled"]
    /\ UNCHANGED <<body, api_key, items, all_chunks_b, loop_i, total, total_done,
                   total_cost, errors, events, outcomes, calls_in_progress, sleeps>>
    /\ UNCHANGED storeVars
    /\ UNCHANGED notBatch

\* ---- inputs ----
\* a stored chunk of a parsed and embedded source
StoredChunk(sid, idx) ==
    [id |-> ChunkId(sid, idx), source_id |-> sid, chapter |-> "ch", section |-> 1,
     text |-> <<1>>, embedding |-> <<1, 0>>, token_count |-> 0, chunk_index |-> idx]

\* source s1 has n chunks, source s2 has one, source s3 has none
StoredChunks(n) == [k \in 1..n |-> StoredChunk("s1", k - 1)] \o <<StoredChunk("s2", 0)>>

SourceIdLists == {<<>>, <<"s3">>, <<"s1">>, <<"s1", "s2">>, <<"s2", "s2">>}

\* stored questions, generated earlier from the first chunk of s1
StoredQuestions(statuses) ==
    [k \in 1..Len(statuses) |->
        [id |-> QuestionId(ChunkId("s1", 0), k - 1, QText(k)),
         text |-> QText(k),
         question_type |-> "direct",
         category |-> "",
         source_chunk_ids |-> <<ChunkId("s1", 0)>>,
         status |-> statuses[k],
         date_generated |-> 0]]

QuestionIdLists ==
    {<<>>, <<QuestionId(ChunkId("s9", 0), 0, QText(0))>>} \cup {<<db_questions[k].id>> : k \in 1..Len(db_questions)}

BatchInit ==
    /\ ChunkIdle
    /\ RetrIdle
    /\ CurateIdle
    /\ EstIdle
    /\ now = 1
    /\ \E n \in 0..MaxItems : db_chunks = StoredChunks(n)
    /\ \E st \in SeqsUpTo({"pending_answer", "answered"}, MaxItems) :
          db_questions = StoredQuestions(st)
    /\ db_qa_pairs = <<>>
    /\ bpc = [b \in Batches |-> "idle"]
    /\ body = [b \in Batches |-> [ids |-> <<>>, key |-> FALSE]]
    /\ api_key = [b \in Batches |-> FALSE]
    /\ items = [b \in Batches |-> <<>>]
    /\ all_chunks_b = <<>>
    /\ loop_i = [b \in Batches |-> 0]
    /\ total = [b \in Batches |-> 0]
    /\ total_done = [b \in Batches |-> 0]
    /\ total_cost = [b \in Batches |-> 0]
    /\ errors = [b \in Batches |-> <<>>]
    /\ events = [b \in Batches |-> <<>>]
    /\ outcomes = [b \in Batches |-> <<>>]
    /\ calls_in_progress = [b \in Batches |-> 0]
    /\ sleeps = [b \in Batches |-> 0]

\* one batch per behaviour: a batch is requested while the other is idle
OtherIdle(b) == \A o \in Batches \ {b} : bpc[o] = "idle"

BatchNext ==
    \/ \E ids \in SourceIdLists, key \in BOOLEAN :
          OtherIdle("questions") /\ generate_questions_batch(ids, key)
    \/ \E ids \in QuestionIdLists, key \in BOOLEAN :
          OtherIdle("answers") /\ generate_answers_batch(ids, key)
    \/ \E b \in Batches : StartCall(b)
    \/ EndCallQuestions
    \/ EndCallAnswers
    \/ \E b \in Batches : Resume(b)
    \/ \E b \in Batches : Wake(b)
    \/ \E b \in Batches : Disconnect(b)

SpecBatch == BatchInit /\ [][BatchNext]_vars

\* ---- the two batches side by side ----
\* the responses of the service while both batches run
ConcurrentQuestionOutcomes ==
    {ServiceError,
     Text(FALSE, TRUE, "none", <<>>),
     Text(FALSE, FALSE, "array", <<QText(1)>>)}

ConcurrentAnswerOutcomes ==
    {ServiceError,
     Text(TRUE, FALSE, "object", <<>>)}

\* source s1 has up to MaxConcurrentItems chunks, and up to
\* MaxConcurrentItems questions of an earlier run are pending
ConcurrentInit ==
    /\ ChunkIdle
    /\ RetrIdle
    /\ CurateIdle
    /\ EstIdle
    /\ now = 1
    /\ \E n \in 1..MaxConcurrentItems :
          db_chunks = [k \in 1..n |-> StoredChunk("s1", k - 1)]
    /\ \E m \in 0..MaxConcurrentItems :
          db_questions = StoredQuestions([k \in 1..m |-> "pending_answer"])
    /\ db_qa_pairs = <<>>
    /\ bpc = [b \in Batches |-> "idle"]
    /\ body = [b \in Batches |-> [ids |-> <<>>, key |-> FALSE]]
    /\ api_key = [b \in Batches |-> FALSE]
    /\ items = [b \in Batches |-> <<>>]
    /\ all_chunks_b = <<>>
    /\ loop_i = [b \in Batches |-> 0]
    /\ total = [b \in Batches |-> 0]
    /\ total_done = [b \in Batches |-> 0]
    /\ total_cost = [b \in Batches |-> 0]
    /\ errors = [b \in Batches |-> <<>>]
    /\ events = [b \in Batches |-> <<>>]
    /\ outcomes = [b \in Batches |-> <<>>]
    /\ calls_in_progress = [b \in Batches |-> 0]
    /\ sleeps = [b \in Batches |-> 0]

\* either request may arrive while the other batch is running
ConcurrentNext ==
    \/ \E key \in BOOLEAN : generate_questions_batch(<<"s1">>, key)
    \/ \E key \in BOOLEAN : generate_answers_batch(<<>>, key)
    \/ \E b \in Batches : StartCall(b)
    \/ EndCallQuestionsOf(ConcurrentQuestionOutcomes)
    \/ EndCallAnswersOf(ConcurrentAnswerOutcomes)
    \/ \E b \in Batches : Resume(b)
    \/ \E b \in Batches : Wake(b)

SpecConcurrent == ConcurrentInit /\ [][ConcurrentNext]_vars

-----------------------------------------------------------------------------
(* Properties of the streamed batches *)

\* the generation of item k of batch b failed: no key, the service call
\* failed, for questions the response holds no JSON array, for answers the
\* response is a JSON document other than an object
ItemFailed(b, k) ==
    \/ outcomes[b][k].kind \in {"not_called", "service_error"}
    \/ /\ b = "questions"
       /\ outcomes[b][k].kind = "text"
       /\ outcomes[b][k].payload # "array"
    \/ /\ b = "answers"
       /\ outcomes[b][k].kind = "text"
       /\ outcomes[b][k].payload \in {"scalar", "array"}
       /\ ~outcomes[b][k].surrounded

\* the failed items of batch b, in item order
FailedItems(b) ==
    SelectSeq([k \in 1..Len(outcomes[b]) |-> k], LAMBDA k : ItemFailed(b, k))

ErrorEntryId(b, e) == IF b = "questions" THEN e.chunk_id ELSE e.question_id

\* the store holds what a successful item writes
ItemStored(b, k) ==
    IF b = "questions"
    THEN \A j \in 1..Len(outcomes[b][k].drafts) :
            \E q \in Range(db_questions) :
                /\ q.text = outcomes[b][k].drafts[j]
                /\ q.source_chunk_ids = <<items[b][k].id>>
    ELSE /\ \E qa \in Range(db_qa_pairs) : qa.question_id = items[b][k].id
         /\ \A q \in Range(db_questions) : q.id = items[b][k].id => q.status = "answered"

\* C1: when a batch is over, every item was processed; the items that did
\* not fail succeeded (a 'progress' event, their results in the store); the
\* error list holds one entry per failed item, in item order, with the
\* item's identifier; the 'done' event counts the failed items.  With one
\* failed item k this is N-1 successes and one entry naming k.
C1_FailuresAreIsolated ==
    \A b \in Batches :
        bpc[b] = "finished" =>
            /\ Len(outcomes[b]) = Len(items[b])
            /\ \A k \in 1..Len(items[b]) :
                  IF ItemFailed(b, k)
                  THEN events[b][k].type = "error"
                  ELSE events[b][k].type = "progress" /\ ItemStored(b, k)
            /\ Len(errors[b]) = Len(FailedItems(b))
            /\ \A j \in 1..Len(errors[b]) :
                  ErrorEntryId(b, errors[b][j]) = items[b][FailedItems(b)[j]].id
            /\ events[b][Len(events[b])].type = "done"
            /\ events[b][Len(events[b])].errors = Len(FailedItems(b))
            /\ b = "answers" => total_done[b] = Len(items[b]) - Len(FailedItems(b))

\* a batch of three or more items is over, only its second item failed
C1_Witness ==
    \E b \in Batches :
        /\ bpc[b] = "finished"
        /\ Len(items[b]) >= 3
        /\ FailedItems(b) = <<2>>
        /\ Len(errors[b]) = 1
        /\ ErrorEntryId(b, errors[b][1]) = items[b][2].id
        /\ events[b][3].type = "progress"

\* C2: the stream is N item events, of type 'progress' or 'error', in item
\* order with current = 1..N and total = N, followed by one 'done' event,
\* which is the last event.
C2_StreamShape ==
    \A b \in Batches :
        /\ Len(events[b]) <= Len(items[b]) + 1
        /\ \A k \in 1..Len(events[b]) :
              IF k <= Len(items[b])
              THEN /\ events[b][k].type \in {"progress", "error"}
                   /\ events[b][k].current = k
                   /\ events[b][k].total = Len(items[b])
              ELSE events[b][k].type = "done"
        /\ bpc[b] = "finished" <=> Len(events[b]) = Len(items[b]) + 1
        /\ bpc[b] \in {"idle", "rejected"} => events[b] = <<>>

\* a batch of three or more items is over, with events of all three types
C2_Witness ==
    \E b \in Batches :
        /\ bpc[b] = "finished"
        /\ Len(items[b]) >= 3
        /\ {events[b][k].type : k \in 1..Len(events[b])} = {"progress", "error", "done"}

\* C3: one generation call at a time; the call of an item starts after all
\* earlier items were notified and after one delay per earlier item; a batch
\* of N items sleeps N-1 times, none of them after the last item.
C3_StrictlySequential ==
    \A b \in Batches :
        /\ calls_in_progress[b] <= 1
        /\ bpc[b] = "in_call" =>
              /\ calls_in_progress[b] = 1
              /\ Len(outcomes[b]) = loop_i[b]
              /\ Len(events[b]) = loop_i[b]
              /\ sleeps[b] = loop_i[b]
        /\ bpc[b] # "in_call" => calls_in_progress[b] = 0
        /\ bpc[b] = "sleep" => loop_i[b] < Len(items[b]) - 1
        /\ bpc[b] = "finished" => sleeps[b] = Len(items[b]) - 1

\* a batch of three or more items is over after two or more delays
C3_Witness ==
    \E b \in Batches :
        /\ bpc[b] = "finished"
        /\ Len(items[b]) >= 3
        /\ sleeps[b] = Len(items[b]) - 1

-----------------------------------------------------------------------------
(* Properties of retrieve_relevant_chunks *)

\* the chunks of the pool that carry an embedding (all_embedded_chunks)
EmbeddedChunks == SelectSeq(all_chunks, LAMBDA c : c.embedding # <<>>)

OriginalIds == IF original_chunk_ids = <<>> THEN {} ELSE Range(original_chunk_ids)

\* ids of the embedded chunks of the pool that are original
EmbeddedOriginalIds == IdsOf(EmbeddedChunks) \cap OriginalIds

SimOf(c) == cosine_similarity(q_embedding, c.embedding)

\* C4: every embedded chunk of the pool whose id is in original_chunk_ids is
\* in the result, for every top_k, also when there are more of them than
\* top_k.
C4_OriginalsAlwaysReturned ==
    rpc = "returned" => \A id \in EmbeddedOriginalIds : id \in IdsOf(results)

\* two originals are returned although top_k is smaller than two
C4_Witness ==
    /\ rpc = "returned"
    /\ Cardinality(EmbeddedOriginalIds) = 2
    /\ top_k < 2
    /\ EmbeddedOriginalIds \subseteq IdsOf(results)

\* C5 as stated: the result never has more than top_k chunks.
C5_AtMostTopK == rpc = "returned" => Len(results) <= top_k

\* C5 amended: the result has at most top_k chunks, or exactly the original
\* chunks when there are more than top_k of them; a chunk that is not
\* original is returned only within the first top_k places.
C5_AtMostTopKOrOriginals ==
    rpc = "returned" =>
        /\ Len(results) <= Max(top_k, Cardinality(EmbeddedOriginalIds))
        /\ \A j \in 1..Len(results) : results[j].id \notin OriginalIds => j <= top_k

\* the pool holds more candidates than top_k and the result is cut at top_k
C5_Witness ==
    /\ rpc = "returned"
    /\ top_k > 0
    /\ Len(results) = top_k
    /\ Cardinality(IdsOf(EmbeddedChunks)) > top_k
    /\ \E j \in 1..Len(results) : results[j].id \notin OriginalIds

\* C6: no two chunks of the result have the same id, also when the pool
\* holds an id twice or original_chunk_ids names an id twice.
C6_NoDuplicateIds ==
    \A j, k \in 1..Len(results) : j # k => results[j].id # results[k].id

\* the pool holds an original id twice, original_chunk_ids names it twice,
\* and two chunks are returned
C6_Witness ==
    /\ rpc = "returned"
    /\ original_chunk_ids = <<1, 1>>
    /\ Len(EmbeddedChunks) = 3
    /\ \E j, k \in 1..Len(all_chunks) :
          j # k /\ all_chunks[j].id = 1 /\ all_chunks[k].id = 1
    /\ Len(results) = 2

\* C7: originals come before all others; the others are in order of
\* non-increasing similarity; no embedded chunk that is left out (its id is
\* not in the result) and is not original is more similar than a returned
\* chunk that is not original.
C7_OriginalsFirstThenBySimilarity ==
    rpc = "returned" =>
        /\ \A j, k \in 1..Len(results) :
              (j < k /\ results[k].id \in OriginalIds) => results[j].id \in OriginalIds
        /\ \A j, k \in 1..Len(results) :
              (j < k /\ results[j].id \notin OriginalIds /\ results[k].id \notin OriginalIds)
              => ~SimLess(SimOf(results[j]), SimOf(results[k]))
        /\ \A m \in 1..Len(EmbeddedChunks) : \A j \in 1..Len(results) :
              (/\ EmbeddedChunks[m].id \notin IdsOf(results)
               /\ EmbeddedChunks[m].id \notin OriginalIds
               /\ results[j].id \notin OriginalIds)
              => ~SimLess(SimOf(results[j]), SimOf(EmbeddedChunks[m]))

\* the scenario: the original chunk has similarity exactly 0.1, nine other
\* chunks score higher, and the original chunk is first of the ten results
C7_Witness ==
    /\ rpc = "returned"
    /\ Len(all_chunks) = 10
    /\ original_chunk_ids = <<3>>
    /\ \A c \in Range(all_chunks) :
          IF c.id = 3
          THEN SimOf(c).num = 1 /\ SimOf(c).den2 = 100
          ELSE SimLess(SimOf(ScenarioOriginal), SimOf(c))
    /\ Len(results) = 10
    /\ results[1].id = 3
    /\ all_chunks[1].id # 3

-----------------------------------------------------------------------------
(* Properties of chunk_sections *)

\* the chunks emitted so far for section k, in output order
ChunksOf(k) == SelectSeq(chunks, LAMBDA c : c.section = k)

\* section k has been left by the for loop
SectionFinished(k) == k \in 1..Len(sections) /\ (sec_i > k \/ cpc = "returned")

WordsOfSection(k) == Split(Strip(sections[k].text))

RECURSIVE DigitsValue(_)
DigitsValue(d) ==
    IF d = <<>> THEN 0 ELSE 10 * DigitsValue(SubSeq(d, 1, Len(d) - 1)) + d[Len(d)]

\* C8: the chunks of one call carry chunk_index 0, 1, ..., n-1 in output
\* order (no gap, no repeat, empty sections consume no index), every id is
\* chunk-<source_id>-<chunk_index as 4 digits>, and the ids are pairwise
\* distinct.
C8_ContiguousIndices ==
    /\ \A j \in 1..Len(chunks) :
          /\ chunks[j].chunk_index = j - 1
          /\ chunks[j].id[1] = "chunk"
          /\ chunks[j].id[2] = source_id
          /\ Len(chunks[j].id[3]) = 4
          /\ DigitsValue(chunks[j].id[3]) = chunks[j].chunk_index
    /\ \A j, k \in 1..Len(chunks) : j # k => chunks[j].id # chunks[k].id

\* a call has returned chunks of two sections, after skipping an empty one,
\* one of the sections being split into several chunks
C8_Witness ==
    /\ cpc = "returned"
    /\ Len(chunks) >= 3
    /\ \E k \in 1..Len(sections) : WordsOfSection(k) = <<>>
    /\ \E j \in 1..(Len(chunks) - 1) :
          /\ chunks[j].section < chunks[j + 1].section
          /\ chunks[j + 1].chunk_index = chunks[j].chunk_index + 1

\* words of a chunk, first and last word position (words are numbered 1..n
\* in the input texts)
ChunkWords(c) == Split(c.text)

StartOf(c) == ChunkWords(c)[1] - 1

EndOf(c) == ChunkWords(c)[Len(ChunkWords(c))]

RECURSIVE DropOverlapConcat(_, _)
DropOverlapConcat(cs, ow) ==
    IF cs = <<>> THEN <<>>
    ELSE DropOverlapConcat(SubSeq(cs, 1, Len(cs) - 1), ow)
         \o (IF Len(cs) = 1 THEN ChunkWords(cs[1])
             ELSE SubSeq(ChunkWords(cs[Len(cs)]), ow + 1, Len(ChunkWords(cs[Len(cs)]))))

\* C9: for a non-empty section and overlap_words < target_words the chunks
\* of the section cover its words: the first starts at word 0, each holds at
\* most target_words words, each later one starts overlap_words words before
\* the end of the one before it, the last ends at the last word, and the
\* chunks with the overlap dropped concatenate to the section's words.
C9_Covers ==
    \A k \in 1..Len(sections) :
        (SectionFinished(k) /\ WordsOfSection(k) # <<>> /\ overlap_words < target_words)
        => LET cs == ChunksOf(k)
               ws == WordsOfSection(k)
           IN  /\ Len(cs) >= 1
               /\ \A j \in 1..Len(cs) :
                     /\ ChunkWords(cs[j]) # <<>>
                     /\ Len(ChunkWords(cs[j])) <= target_words
                     /\ ChunkWords(cs[j]) = SubSeq(ws, StartOf(cs[j]) + 1, EndOf(cs[j]))
               /\ StartOf(cs[1]) = 0
               /\ \A j \in 2..Len(cs) : StartOf(cs[j]) = EndOf(cs[j - 1]) - overlap_words
               /\ EndOf(cs[Len(cs)]) = Len(ws)
               /\ DropOverlapConcat(cs, overlap_words) = ws

\* a section was split into three or more chunks with a real overlap
C9_Witness ==
    \E k \in 1..Len(sections) :
        /\ SectionFinished(k)
        /\ 0 < overlap_words
        /\ overlap_words < target_words
        /\ Len(ChunksOf(k)) >= 3

\* C10: a section of exactly target_words words yields exactly one chunk;
\* no emitted chunk has an empty text; no chunk of a section follows the
\* chunk that contains the section's last word.
C10_NoEmptyNoTail ==
    /\ \A k \in 1..Len(sections) :
          (SectionFinished(k) /\ Len(WordsOfSection(k)) = target_words
             /\ target_words > 0)
          => Len(ChunksOf(k)) = 1
    /\ \A j \in 1..Len(chunks) : chunks[j].text # <<>>
    /\ \A k \in 1..Len(sections) :
          LET cs == ChunksOf(k)
              n  == Len(WordsOfSection(k))
          IN  \A j \in 1..Len(cs) :
                (ChunkWords(cs[j]) # <<>> /\ EndOf(cs[j]) = n) => j = Len(cs)

\* the long section was chunked with the defaults
ScenarioChunked ==
    /\ sections = ScenarioSections
    /\ target_tokens = TargetTokensDefault
    /\ overlap_tokens = OverlapTokensDefault
    /\ cpc = "returned"

\* C11 as stated: a 2600-word section chunked with target_tokens = 1500 and
\* overlap_tokens = 200 yields exactly 2 chunks, the second beginning 267
\* words before the end of the first.
C11_SecondBegins267 ==
    ScenarioChunked =>
        /\ Len(chunks) = 2
        /\ EndOf(chunks[1]) - StartOf(chunks[2]) = 267

\* C11 amended: the same call yields exactly 2 chunks, the first holding
\* the words 0..2000, the second beginning int(200 / 0.75) = 266 words
\* before the end of the first and ending at the last word.
C11_SecondBegins266 ==
    ScenarioChunked =>
        /\ Len(chunks) = 2
        /\ StartOf(chunks[1]) = 0
        /\ EndOf(chunks[1]) = 2000
        /\ EndOf(chunks[1]) - StartOf(chunks[2]) = 266
        /\ EndOf(chunks[2]) = ScenarioWords

\* the long section was chunked into overlapping chunks
C11_Witness ==
    /\ ScenarioChunked
    /\ Len(chunks) >= 2
    /\ StartOf(chunks[2]) < EndOf(chunks[1])

-----------------------------------------------------------------------------
(* Properties of the generators inside the batches *)

\* no JSON object can be decoded from the response text of answers item k
NoJsonObject(k) ==
    /\ outcomes["answers"][k].kind = "text"
    /\ outcomes["answers"][k].payload # "object"

\* C12: an answers item whose response text holds no JSON object is
\* recovered: generate_answer does not raise, the item is reported with a
\* 'progress' event, its QAPair is saved with the raw response text as the
\* answer, and the error list has no entry for it.
C12_UndecodableAnswerIsRecovered ==
    \A k \in 1..Len(outcomes["answers"]) :
        NoJsonObject(k) =>
            /\ events["answers"][k].type = "progress"
            /\ \E qa \in Range(db_qa_pairs) :
                  /\ qa.question_id = items["answers"][k].id
                  /\ qa.answer = outcomes["answers"][k]
            /\ \A j \in 1..Len(errors["answers"]) :
                  errors["answers"][j].question_id # items["answers"][k].id

\* the response is neither valid JSON nor text with an embedded JSON array
NotJsonNoArray(o) ==
    /\ o.kind = "text"
    /\ o.payload # "array"
    /\ o.payload = "none" \/ o.surrounded

\* the step in which the call of a questions item returns or raises
QuestionsItemStep == Len(outcomes'["questions"]) = Len(outcomes["questions"]) + 1

\* C13 (state part): a questions item whose response is neither JSON nor
\* text with an embedded array is reported by an 'error' event carrying the
\* chunk's id; the batch goes on: the next event, if any, reports the next
\* chunk, and a finished batch has processed every chunk.
C13_ErrorEventAndGoesOn ==
    \A k \in 1..Len(outcomes["questions"]) :
        NotJsonNoArray(outcomes["questions"][k]) =>
            /\ events["questions"][k].type = "error"
            /\ events["questions"][k].chunk_id = items["questions"][k].id
            /\ bpc["questions"] \notin {"idle", "rejected"}
            /\ (k < Len(items["questions"]) /\ Len(events["questions"]) > k)
                  => /\ events["questions"][k + 1].type \in {"progress", "error"}
                     /\ events["questions"][k + 1].chunk_id = items["questions"][k + 1].id
            /\ bpc["questions"] = "finished"
                  => Len(outcomes["questions"]) = Len(items["questions"])

\* C13: the state part, and the step of such an item writes no question to
\* the store and leaves total_questions and the cumulative cost unchanged.
C13_UnparsableQuestionsAreSkipped ==
    /\ []C13_ErrorEventAndGoesOn
    /\ [][(QuestionsItemStep
             /\ NotJsonNoArray(outcomes'["questions"][Len(outcomes'["questions"])]))
          => /\ db_questions' = db_questions
             /\ total_done'["questions"] = total_done["questions"]
             /\ total_cost'["questions"] = total_cost["questions"]]_vars

\* a questions batch is over whose first response was prose and whose
\* second response gave questions
C13_Witness ==
    /\ bpc["questions"] = "finished"
    /\ Len(items["questions"]) >= 2
    /\ NotJsonNoArray(outcomes["questions"][1])
    /\ events["questions"][1].type = "error"
    /\ events["questions"][2].type = "progress"
    /\ events["questions"][2].questions_generated > 0

\* C14: a batch without credentials is aborted as a whole before any item
\* is attempted: no item is processed and no per-item event ('progress' or
\* 'error') is emitted for any of its items.
C14_MissingCredentialsAbort ==
    \A b \in Batches :
        (bpc[b] \notin {"idle", "rejected"} /\ ~api_key[b]) =>
            /\ outcomes[b] = <<>>
            /\ \A k \in 1..Len(events[b]) : events[b][k].type \notin {"progress", "error"}

-----------------------------------------------------------------------------
(* Properties of the batch requests *)

\* the step in which the request of batch b is handled
RequestStep(b) == bpc[b] = "idle" /\ bpc'[b] # "idle"

\* a request with these ids has nothing to process in the store as it is:
\* no source ids or no chunk of the selected sources; no question with one
\* of the given ids or, without ids, no question pending an answer
NothingToProcess(b, ids) ==
    IF b = "questions"
    THEN \A c \in Range(db_chunks) : c.source_id \notin Range(ids)
    ELSE \A q \in Range(db_questions) :
            IF ids # <<>> THEN q.id \notin Range(ids) ELSE q.status # "pending_answer"

\* C15: a request with nothing to process is rejected in the step that
\* handles it, and only such a request is; the step leaves the store
\* unchanged; a rejected request stays rejected, has emitted no event and
\* has made no generation call.
C15_EmptyRequestRejected ==
    /\ [](\A b \in Batches :
            bpc[b] = "rejected" =>
                /\ events[b] = <<>>
                /\ outcomes[b] = <<>>
                /\ calls_in_progress[b] = 0
                /\ items[b] = <<>>)
    /\ [][\A b \in Batches :
            /\ RequestStep(b) =>
                  /\ bpc'[b] = (IF NothingToProcess(b, body'[b].ids)
                                THEN "rejected" ELSE "call")
                  /\ bpc'[b] = "rejected" => storeVars' = storeVars
            /\ bpc[b] = "rejected" => bpc'[b] = "rejected" /\ storeVars' = storeVars]_vars

\* a request naming ids, none of which has anything to process, was
\* rejected
C15_Witness ==
    \E b \in Batches :
        /\ bpc[b] = "rejected"
        /\ body[b].ids # <<>>
        /\ events[b] = <<>>

-----------------------------------------------------------------------------
(* Properties of a disconnecting client *)

-----------------------------------------------------------------------------
(* Properties of two batches side by side *)

\* what the generator returns for item n of batch b, given the response
\* the service gave for it
ResultOf(b, n) ==
    IF b = "questions"
    THEN generate_questions_for_chunk(items[b][n], api_key[b], outcomes[b][n], 0)
    ELSE generate_answer(items[b][n],
                         retrieve_relevant_chunks(QuestionEmbedding, all_chunks_b,
                                                  TopKDefault, items[b][n].source_chunk_ids),
                         api_key[b], outcomes[b][n], 0)

\* batch b run alone over its first n items: its events, counters and
\* error list, item after item
RECURSIVE RunAlone(_, _)
RunAlone(b, n) ==
    IF n = 0 THEN [events |-> <<>>, done |-> 0, cost |-> 0, errs |-> <<>>]
    ELSE LET p == RunAlone(b, n - 1)
             item == items[b][n]
             r == ResultOf(b, n)
         IN  IF r.raised
             THEN [events |-> Append(p.events,
                                     ErrorEvent(b, n - 1, Len(items[b]), item, r)),
                   done |-> p.done,
                   cost |-> p.cost,
                   errs |-> Append(p.errs, ErrorEntry(b, item, r))]
             ELSE LET done == p.done + (IF b = "questions" THEN Len(r.questions) ELSE 1)
                      cost == p.cost + r.usage.cost_estimate
                  IN  [events |-> Append(p.events,
                                         ProgressEvent(b, n - 1, Len(items[b]), item, r,
                                                       done, cost)),
                       done |-> done,
                       cost |-> cost,
                       errs |-> p.errs]

\* the events, counters and error list of batch b are those of the batch
\* run alone over the items it captured
SameAsAlone(b) ==
    LET n == Len(outcomes[b])
        alone == RunAlone(b, n)
    IN  /\ n <= Len(items[b])
        /\ total[b] = Len(items[b])
        /\ total_done[b] = alone.done
        /\ total_cost[b] = alone.cost
        /\ errors[b] = alone.errs
        /\ IF bpc[b] = "finished"
           THEN /\ n = Len(items[b])
                /\ events[b] = Append(alone.events,
                                      DoneEvent(b, alone.done, alone.cost, alone.errs))
           ELSE events[b] = alone.events

\* the locals of batch o
LocalsOf(o) ==
    <<items[o], loop_i[o], total[o], total_done[o], total_cost[o], errors[o],
      events[o], outcomes[o], sleeps[o], api_key[o]>>

\* C17: with the two batches interleaved, each batch emits the events and
\* holds the counters, totals and error list of the batch run alone over the
\* item set it captured; the captured item set never changes; and a step of
\* one batch leaves the item list, counters, error list and events of the
\* other as they are.
C17_BatchesDoNotInterfere ==
    /\ [](\A b \in Batches : bpc[b] \notin {"idle", "rejected"} => SameAsAlone(b))
    /\ [][\A b \in Batches :
            /\ bpc[b] \notin {"idle", "rejected"} => items'[b] = items[b]
            /\ bpc'[b] # bpc[b] =>
                  \A o \in Batches \ {b} : LocalsOf(o)' = LocalsOf(o)]_vars

\* both batches are over, each of two or more items; the answers batch
\* captured a question that the questions batch generated, and the
\* questions batch generated another one after that
C17_Witness ==
    /\ \A b \in Batches : bpc[b] = "finished" /\ Len(items[b]) >= 2
    /\ \E k \in 1..Len(items["answers"]) : items["answers"][k].date_generated > 0
    /\ \E q \in Range(db_questions) :
          \A k \in 1..Len(items["answers"]) : items["answers"][k].id # q.id

-----------------------------------------------------------------------------
(* Properties of the counters in the events *)

\* the 'progress' events among the first k events of batch b
ProgressUpTo(b, k) ==
    SelectSeq(SubSeq(events[b], 1, k), LAMBDA e : e.type = "progress")

\* the sum of questions_generated over a sequence of 'progress' events
RECURSIVE SumGenerated(_)
SumGenerated(es) ==
    IF es = <<>> THEN 0 ELSE Head(es).questions_generated + SumGenerated(Tail(es))

\* the counter an event of batch b carries
TotalIn(b, e) == IF b = "questions" THEN e.total_questions ELSE e.total_answers

\* what the items reported by these 'progress' events add to the counter
CountedBy(b, es) == IF b = "questions" THEN SumGenerated(es) ELSE Len(es)

\* C18: the counter of every 'progress' event is the sum of
\* questions_generated (questions) or the number (answers) of the 'progress'
\* events up to and including it, and its cost is the cost of those items;
\* the 'done' event carries the same sums over the whole batch; in an
\* answers batch total_answers + errors = N at 'done'; items reported by an
\* 'error' event add nothing.
C18_TotalsAreSums ==
    \A b \in Batches :
        \A k \in 1..Len(events[b]) :
            LET e == events[b][k]
                ps == ProgressUpTo(b, k)
            IN  /\ e.type = "progress" =>
                      /\ TotalIn(b, e) = CountedBy(b, ps)
                      /\ e.cost_so_far = Round4(Len(ps) * cost_estimate(ResponseUsage))
                /\ e.type = "done" =>
                      /\ TotalIn(b, e) = CountedBy(b, ps)
                      /\ e.total_cost = Round4(Len(ps) * cost_estimate(ResponseUsage))
                      /\ e.errors = Len(items[b]) - Len(ps)
                      /\ b = "answers" => e.total_answers + e.errors = Len(items[b])

\* a questions batch is over: two questions from its first chunk, an error
\* for the second, two questions from the third, four in all
C18_Witness ==
    /\ bpc["questions"] = "finished"
    /\ Len(events["questions"]) >= 4
    /\ events["questions"][1].type = "progress"
    /\ events["questions"][1].questions_generated = 2
    /\ events["questions"][2].type = "error"
    /\ events["questions"][3].type = "progress"
    /\ events["questions"][3].total_questions = 4

-----------------------------------------------------------------------------
(* Properties of the fields of the events *)

\* the field that names the item in an event of batch b
IdField(b) == IF b = "questions" THEN "chunk_id" ELSE "question_id"

\* C19: every per-item event, 'progress' or 'error', carries the identifier
\* of the item it reports: chunk_id in a questions batch, question_id in an
\* answers batch.
C19_ItemEventsCarryId ==
    \A b \in Batches :
        \A k \in 1..Len(events[b]) :
            events[b][k].type \in {"progress", "error"} =>
                /\ IdField(b) \in DOMAIN events[b][k]
                /\ events[b][k][IdField(b)] = items[b][k].id

-----------------------------------------------------------------------------
(* Properties of the question identifiers *)

\* a questions row without its date
QuestionFields(q) ==
    [id |-> q.id, text |-> q.text, question_type |-> q.question_type,
     category |-> q.category, source_chunk_ids |-> q.source_chunk_ids,
     status |-> q.status]

QuestionRows(table) == {QuestionFields(table[k]) : k \in 1..Len(table)}

\* the item whose call returns in this step is the chunk of the item before
\* it, and the service gives the response it gave for that item, from which
\* questions were generated
SameChunkSameResponse ==
    /\ QuestionsItemStep
    /\ Len(outcomes["questions"]) >= 1
    /\ LET k == Len(outcomes["questions"])
       IN  /\ items["questions"][k + 1] = items["questions"][k]
           /\ outcomes'["questions"][k + 1] = outcomes["questions"][k]
           /\ ~ItemFailed("questions", k)

\* C20: no two questions rows share an id; and generating again for the
\* same chunk with the same response, right after the first time, leaves the
\* store with the same questions (ids, text, type, category,
\* source_chunk_ids, status) and the same number of rows.
C20_QuestionIdsAreDeterministic ==
    /\ [](\A j, k \in 1..Len(db_questions) :
            j # k => db_questions[j].id # db_questions[k].id)
    /\ [][SameChunkSameResponse =>
            /\ QuestionRows(db_questions') = QuestionRows(db_questions)
            /\ Len(db_questions') = Len(db_questions)]_vars

\* the same chunk was processed twice in a row with the same response of two
\* drafts, and the store holds two questions of that chunk
C20_Witness ==
    /\ Len(outcomes["questions"]) >= 2
    /\ items["questions"][1] = items["questions"][2]
    /\ outcomes["questions"][1] = outcomes["questions"][2]
    /\ ~ItemFailed("questions", 1)
    /\ Len(outcomes["questions"][1].drafts) = 2
    /\ Cardinality({k \in 1..Len(db_questions) :
                      db_questions[k].source_chunk_ids = <<items["questions"][1].id>>}) = 2

-----------------------------------------------------------------------------
(* Sources (app.py, database.py).  A handler of app.py runs from its first *)
(* statement to its return without giving up the event loop (it awaits    *)
(* nothing after the request is read), so each request is one step; only  *)
(* parse_source is shown in two steps, so that the status it writes first *)
(* is a state of its own, and no other request is served in between.      *)

\* the chunks an uploaded file parses into, at most
MaxFileChunks == 1

\* the clock readings of a run of SpecSources, at most
MaxSourceClock == 1

\* the clock readings of a run of SpecReview, at most
MaxClock == 5

\* the files a client uploads: a name and its suffix
Filenames ==
    {[stem |-> "a", ext |-> ".txt"], [stem |-> "b", ext |-> ".md"],
     [stem |-> "c", ext |-> ".exe"]}

\* `ext not in (".pdf", ".txt", ".md", ".text", ".markdown")`
SupportedExt == {".pdf", ".txt", ".md", ".text", ".markdown"}

\* "src-" + md5(filename)[:8]
SourceIdOf(filename) == <<"src", filename.stem, filename.ext>>

SourceIds == {SourceIdOf(f) : f \in Filenames}

\* db.get_source(source_id) is not None
HasSource(sid) == \E k \in 1..Len(db_sources) : db_sources[k].id = sid

\* db.get_source(source_id)
get_source(sid) == CHOOSE r \in Range(db_sources) : r.id = sid

\* INSERT INTO sources (...) VALUES (..., 'uploaded'); chunk_count defaults
\* to 0.  The columns no request below reads are left out.
create_source(table, sid) ==
    Append(table, [id |-> sid, status |-> "uploaded", chunk_count |-> 0])

\* UPDATE sources SET status=?[, chunk_count=?] WHERE id=?; count is <<>>
\* for chunk_count=None and <<n>> for chunk_count=n
update_source_status(table, sid, status, count) ==
    [k \in 1..Len(table) |->
        IF table[k].id = sid
        THEN [table[k] EXCEPT !.status = status,
                              !.chunk_count = IF count = <<>> THEN @ ELSE count[1]]
        ELSE table[k]]

delete_source_chunks_kept(table, sid) == table

\* DELETE FROM chunks WHERE source_id=?
delete_source_chunks(table, sid) == SelectSeq(table, LAMBDA c : c.source_id # sid)

\* DELETE FROM sources WHERE id=?
delete_source_row(table, sid) == SelectSeq(table, LAMBDA r : r.id # sid)

\* save_chunks: INSERT OR REPLACE of every chunk, in order
RECURSIVE save_chunks(_, _)
save_chunks(table, cs) ==
    IF cs = <<>> THEN table
    ELSE save_chunks(InsertOrReplace(table, Head(cs)), Tail(cs))

\* embed_chunks(chunk_sections(parse_file(filepath), source_id)) of a file
\* whose text makes n chunks
ParsedChunks(sid, n) == [k \in 1..n |-> StoredChunk(sid, k - 1)]

\* list(UPLOAD_DIR.glob(f"{source_id}.*"))
UploadFiles(sid) == {u \in uploads : u.id = sid}

\* POST /api/sources/upload
upload_source(filename, n) ==
    LET sid == SourceIdOf(filename)
    IN  /\ ppc = NotParsing
        /\ IF filename.ext \notin SupportedExt
           THEN /\ op' = [name |-> "upload_source", id |-> sid, code |-> 400]
                /\ UNCHANGED <<db_sources, uploads>>
           ELSE IF HasSource(sid)
           THEN /\ op' = [name |-> "upload_source", id |-> sid, code |-> 409]
                /\ UNCHANGED <<db_sources, uploads>>
           ELSE /\ uploads' = (uploads \ UploadFiles(sid)) \cup {[id |-> sid, chunks |-> n]}
                /\ db_sources' = create_source(db_sources, sid)
                /\ op' = [name |-> "upload_source", id |-> sid, code |-> 200]
        /\ UNCHANGED <<ppc, storeVars>>
        /\ UNCHANGED notCurate

\* POST /api/sources/{source_id}/parse, up to the try statement
parse_source(sid) ==
    /\ ppc = NotParsing
    /\ IF ~HasSource(sid) \/ UploadFiles(sid) = {}
       THEN /\ op' = [name |-> "parse_source", id |-> sid, code |-> 404]
            /\ UNCHANGED <<db_sources, ppc>>
       ELSE /\ db_sources' = update_source_status(db_sources, sid, "parsing", <<>>)
            /\ ppc' = sid
            /\ op' = [name |-> "parse_source", id |-> sid, code |-> 0]
    /\ UNCHANGED <<uploads, storeVars>>
    /\ UNCHANGED notCurate

\* parse_source, the try statement: ok tells whether parsing, chunking,
\* embedding and saving all went through
parse_source_try(ok) ==
    /\ ppc # NotParsing
    /\ LET file == CHOOSE u \in UploadFiles(ppc) : TRUE
           parsed == ParsedChunks(ppc, file.chunks)
       IN  IF ok
           THEN /\ db_chunks' = save_chunks(db_chunks, parsed)
                /\ db_sources' =
                       update_source_status(db_sources, ppc, "indexed", <<Len(parsed)>>)
                /\ op' = [name |-> "parse_source", id |-> ppc, code |-> 200]
           ELSE /\ db_sources' = update_source_status(db_sources, ppc, "error", <<>>)
                /\ op' = [name |-> "parse_source", id |-> ppc, code |-> 500]
                /\ UNCHANGED db_chunks
    /\ ppc' = NotParsing
    /\ UNCHANGED <<uploads, db_questions, db_qa_pairs, now>>
    /\ UNCHANGED notCurate

\* DELETE /api/sources/{source_id}
delete_source(sid) ==
    /\ ppc = NotParsing
    /\ IF ~HasSource(sid)
       THEN /\ op' = [name |-> "delete_source", id |-> sid, code |-> 404]
            /\ UNCHANGED <<db_sources, uploads, db_chunks>>
       ELSE /\ uploads' = uploads \ UploadFiles(sid)
            /\ db_chunks' = delete_source_chunks(db_chunks, sid)
            /\ db_sources' = delete_source_row(db_sources, sid)
            /\ op' = [name |-> "delete_source", id |-> sid, code |-> 200]
    /\ UNCHANGED <<ppc, db_questions, db_qa_pairs, now>>
    /\ UNCHANGED notCurate

\* POST /api/questions/generate for one chunk with a key, from the request
\* to the end of the stream: the pass of the loop over that chunk.  The
\* clock is read while it is at most `until`.
generate_questions_pass(chunk, outcome, until) ==
    /\ ppc = NotParsing
    /\ LET r == generate_questions_for_chunk(chunk, TRUE, outcome, now)
       IN  IF r.raised
           THEN /\ op' = [name |-> "generate_questions", id |-> chunk.id, code |-> 500]
                /\ UNCHANGED <<db_questions, db_qa_pairs, now>>
           ELSE /\ now + Len(r.questions) <= until
                /\ db_questions' = save_questions(db_questions, r.questions)
                /\ db_qa_pairs' = save_questions_cascade(db_qa_pairs, r.questions)
                /\ now' = now + Len(r.questions)
                /\ op' = [name |-> "generate_questions", id |-> chunk.id, code |-> 200]
    /\ UNCHANGED <<db_chunks, db_sources, uploads, ppc>>
    /\ UNCHANGED notCurate

\* the responses of the service in these runs
PassOutcomes == {ServiceError, Text(FALSE, FALSE, "array", <<QText(1)>>)}

SourcesInit ==
    /\ ChunkIdle
    /\ RetrIdle
    /\ BatchIdle

SourcesNext ==
    \/ \E f \in Filenames, n \in 0..MaxFileChunks : upload_source(f, n)
    \/ \E sid \in SourceIds : parse_source(sid)
    \/ \E ok \in BOOLEAN : parse_source_try(ok)
    \/ \E sid \in SourceIds : delete_source(sid)
    \/ \E k \in 1..Len(db_chunks), outcome \in PassOutcomes :
          generate_questions_pass(db_chunks[k], outcome, MaxSourceClock)

SpecSources == SourcesInit /\ [][SourcesNext]_vars

-----------------------------------------------------------------------------
(* Properties of the sources *)

HasSourceIn(table, sid) == \E k \in 1..Len(table) : table[k].id = sid

SourceStatusIn(table, sid) == (CHOOSE r \in Range(table) : r.id = sid).status

LifecycleChanges ==
    {<<"uploaded", "parsing">>, <<"parsing", "indexed">>, <<"parsing", "error">>}

\* C25: a source is created with status uploaded, and every change of the
\* status of a stored source is one of uploaded -> parsing, parsing ->
\* indexed, parsing -> error
C25_OnlyLifecycleChanges ==
    [][\A sid \in SourceIds :
          /\ (~HasSourceIn(db_sources, sid) /\ HasSourceIn(db_sources', sid))
                => SourceStatusIn(db_sources', sid) = "uploaded"
          /\ (HasSourceIn(db_sources, sid) /\ HasSourceIn(db_sources', sid))
                => \/ SourceStatusIn(db_sources', sid) = SourceStatusIn(db_sources, sid)
                   \/ <<SourceStatusIn(db_sources, sid), SourceStatusIn(db_sources', sid)>>
                          \in LifecycleChanges]_vars

\* every stored chunk belongs to a stored source
ChunksOwned == \A k \in 1..Len(db_chunks) : HasSource(db_chunks[k].source_id)

\* C26: every stored chunk's source_id names a stored source; the step that
\* deletes a source leaves no chunk with that source_id and leaves the
\* questions as they are
C26_SourceOwnsItsChunks ==
    /\ []ChunksOwned
    /\ [][(op'.name = "delete_source" /\ op'.code = 200)
            => /\ \A k \in 1..Len(db_chunks') : db_chunks'[k].source_id # op'.id
               /\ db_questions' = db_questions]_vars

\* a source with a chunk and a question generated from that chunk was
\* deleted, while the chunk of the other source is still stored
C26_Witness ==
    /\ op.name = "delete_source"
    /\ op.code = 200
    /\ \E k \in 1..Len(db_questions) :
          db_questions[k].source_chunk_ids = <<ChunkId(op.id, 0)>>
    /\ db_chunks # <<>>

-----------------------------------------------------------------------------
(* Questions, answers and review (app.py, database.py) *)

\* the questions stored when a run of SpecReview starts, at most
MaxReviewQuestions == 1

\* body.get(...) of a field the request body does not carry
None == "None"

\* None where a question text is expected
NoText == <<>>

\* db.update_question: UPDATE questions SET the fields given, WHERE id=?
db_update_question(table, qid, text, status) ==
    [k \in 1..Len(table) |->
        IF table[k].id = qid
        THEN [table[k] EXCEPT !.text = IF text = NoText THEN @ ELSE text,
                              !.status = IF status = None THEN @ ELSE status]
        ELSE table[k]]

update_question_replaces(qa_table, qid) ==
    SelectSeq(qa_table, LAMBDA qa : qa.question_id # qid)

\* the qa_pairs after db.update_question: its UPDATE deletes no row of
\* questions, so ON DELETE CASCADE removes nothing
update_question_cascade(qa_table, qid) == qa_table

\* SELECT * FROM qa_pairs WHERE status=? ORDER BY date_generated
get_qa_pairs(status) ==
    OrderByDate(<<>>, SelectSeq(db_qa_pairs, LAMBDA qa : qa.status = status))

\* db.get_qa_pair(qa_id) is not None
HasQaPair(qa_id) == \E k \in 1..Len(db_qa_pairs) : db_qa_pairs[k].id = qa_id

\* db.update_qa_status: UPDATE qa_pairs SET status=?, date_reviewed=?
db_update_qa_status(table, qa_id, status, t) ==
    [k \in 1..Len(table) |->
        IF table[k].id = qa_id
        THEN [table[k] EXCEPT !.status = status, !.date_reviewed = t]
        ELSE table[k]]

\* db.update_qa_pair(qa_id, **kwargs): a field is written when it is in
\* kwargs and not None; date_reviewed is written when "status" is in kwargs
db_update_qa_pair(table, qa_id, kwargs, t) ==
    [k \in 1..Len(table) |->
        IF table[k].id = qa_id
        THEN [table[k] EXCEPT
                !.answer = IF "answer" \in DOMAIN kwargs /\ kwargs.answer # None
                           THEN kwargs.answer ELSE @,
                !.status = IF "status" \in DOMAIN kwargs /\ kwargs.status # None
                           THEN kwargs.status ELSE @,
                !.date_reviewed = IF "status" \in DOMAIN kwargs THEN t ELSE @]
        ELSE table[k]]

\* DELETE FROM qa_pairs WHERE id=?
db_delete_qa_pair(table, qa_id) == SelectSeq(table, LAMBDA qa : qa.id # qa_id)

\* the loop of bulk_approve: each update_qa_status reads the clock
RECURSIVE ApproveAll(_, _, _)
ApproveAll(table, qa_ids, t) ==
    IF qa_ids = <<>> THEN table
    ELSE ApproveAll(db_update_qa_status(table, Head(qa_ids), "approved", t),
                    Tail(qa_ids), t + 1)

\* PUT /api/questions/{question_id}
update_question(qid, b) ==
    /\ ppc = NotParsing
    /\ db_questions' = db_update_question(db_questions, qid, b.text, b.status)
    /\ db_qa_pairs' = update_question_cascade(db_qa_pairs, qid)
    /\ op' = [name |-> "update_question", id |-> qid, code |-> 200]
    /\ UNCHANGED <<db_chunks, now, db_sources, uploads, ppc>>
    /\ UNCHANGED notCurate

\* POST /api/answers/generate-single/{question_id}
generate_single_answer(qid, key, outcome) ==
    /\ ppc = NotParsing
    /\ IF ~\E k \in 1..Len(db_questions) : db_questions[k].id = qid
       THEN /\ op' = [name |-> "generate_single_answer", id |-> qid, code |-> 404]
            /\ UNCHANGED <<db_questions, db_qa_pairs, now>>
       ELSE LET question == CHOOSE q \in Range(get_questions("")) : q.id = qid
                relevant == retrieve_relevant_chunks(QuestionEmbedding,
                                get_all_chunks_with_embeddings, TopKDefault,
                                question.source_chunk_ids)
                r == generate_answer(question, relevant, key, outcome, now)
            IN  IF r.raised
                THEN /\ op' = [name |-> "generate_single_answer", id |-> qid, code |-> 500]
                     /\ UNCHANGED <<db_questions, db_qa_pairs, now>>
                ELSE /\ now + 2 <= MaxClock
                     /\ db_qa_pairs' = save_qa_pair(db_qa_pairs, r.qa)
                     /\ db_questions' =
                            update_question_status(db_questions, question.id, "answered")
                     /\ now' = now + 2
                     /\ op' = [name |-> "generate_single_answer", id |-> qid, code |-> 200]
    /\ UNCHANGED <<db_chunks, db_sources, uploads, ppc>>
    /\ UNCHANGED notCurate

\* PUT /api/review/{qa_id}: every field is passed on as body.get(field)
update_qa(qa_id, b) ==
    /\ ppc = NotParsing
    /\ IF ~HasQaPair(qa_id)
       THEN /\ op' = [name |-> "update_qa", id |-> qa_id, code |-> 404]
            /\ UNCHANGED <<db_qa_pairs, now>>
       ELSE /\ now + 1 <= MaxClock
            /\ db_qa_pairs' =
                   db_update_qa_pair(db_qa_pairs, qa_id,
                                     [answer |-> b.answer, status |-> b.status], now)
            /\ now' = now + 1
            /\ op' = [name |-> "update_qa", id |-> qa_id, code |-> 200]
    /\ UNCHANGED <<db_chunks, db_questions, db_sources, uploads, ppc>>
    /\ UNCHANGED notCurate

\* POST /api/review/bulk-approve
bulk_approve(ids) ==
    /\ ppc = NotParsing
    /\ LET pending == get_qa_pairs("pending_review")
           qa_ids == IF ids = <<>> THEN [k \in 1..Len(pending) |-> pending[k].id]
                     ELSE ids
       IN  /\ now + Len(qa_ids) <= MaxClock
           /\ db_qa_pairs' = ApproveAll(db_qa_pairs, qa_ids, now)
           /\ now' = now + Len(qa_ids)
           /\ op' = [name |-> "bulk_approve", id |-> ids, code |-> 200]
    /\ UNCHANGED <<db_chunks, db_questions, db_sources, uploads, ppc>>
    /\ UNCHANGED notCurate

\* DELETE /api/review/{qa_id}
delete_qa(qa_id) ==
    /\ ppc = NotParsing
    /\ db_qa_pairs' = db_delete_qa_pair(db_qa_pairs, qa_id)
    /\ op' = [name |-> "delete_qa", id |-> qa_id, code |-> 200]
    /\ UNCHANGED <<db_chunks, db_questions, now, db_sources, uploads, ppc>>
    /\ UNCHANGED notCurate

\* DELETE /api/answers
delete_all_answers ==
    /\ ppc = NotParsing
    /\ db_qa_pairs' = <<>>
    /\ op' = [name |-> "delete_all_answers", id |-> <<>>, code |-> 200]
    /\ UNCHANGED <<db_chunks, db_questions, now, db_sources, uploads, ppc>>
    /\ UNCHANGED notCurate

\* ---- inputs ----
\* the ids a client may name: the stored ones and one that is not stored
QuestionIdsAsked ==
    {db_questions[k].id : k \in 1..Len(db_questions)}
        \cup {QuestionId(ChunkId("s9", 0), 0, QText(0))}

QaIdsAsked ==
    {db_qa_pairs[k].id : k \in 1..Len(db_qa_pairs)}
        \cup {QaId(QuestionId(ChunkId("s9", 0), 0, QText(0)), 0)}

QuestionBodies ==
    [text : {NoText, QText(9)}, status : {None, "pending_answer", "answered"}]

QaBodies ==
    [answer : {None, "edited answer"},
     status : {None, "pending_review", "approved", "discarded"}]

SingleAnswerOutcomes == {ServiceError, Text(FALSE, FALSE, "object", <<>>)}

\* source s1 was uploaded and parsed into one chunk, and questions were
\* generated from that chunk
ReviewInit ==
    /\ ChunkIdle
    /\ RetrIdle
    /\ EstIdle
    /\ BatchLocalsIdle
    /\ now = 1
    /\ db_sources = <<[id |-> "s1", status |-> "indexed", chunk_count |-> 1]>>
    /\ uploads = {[id |-> "s1", chunks |-> 1]}
    /\ ppc = NotParsing
    /\ op = [name |-> "none", id |-> <<>>, code |-> 0]
    /\ db_chunks = <<StoredChunk("s1", 0)>>
    /\ \E m \in 1..MaxReviewQuestions :
          db_questions = StoredQuestions([k \in 1..m |-> "pending_answer"])
    /\ db_qa_pairs = <<>>

ReviewNext ==
    \/ \E outcome \in PassOutcomes :
          generate_questions_pass(db_chunks[1], outcome, MaxClock)
    \/ \E qid \in QuestionIdsAsked, b \in QuestionBodies : update_question(qid, b)
    \/ \E qid \in QuestionIdsAsked, key \in BOOLEAN, outcome \in SingleAnswerOutcomes :
          generate_single_answer(qid, key, outcome)
    \/ \E qa_id \in QaIdsAsked, b \in QaBodies : update_qa(qa_id, b)
    \/ \E ids \in {<<>>} \cup {<<qa_id>> : qa_id \in QaIdsAsked} : bulk_approve(ids)
    \/ \E qa_id \in QaIdsAsked : delete_qa(qa_id)
    \/ delete_all_answers

SpecReview == ReviewInit /\ [][ReviewNext]_vars

-----------------------------------------------------------------------------
(* Properties of questions, answers and review *)

\* the rows of a table with a given id
RowsOf(table, id) == {k \in 1..Len(table) : table[k].id = id}

\* the ids stored in a table before and after the step
Kept(table, table2) ==
    {table[k].id : k \in 1..Len(table)} \cap {table2[k].id : k \in 1..Len(table2)}

RowOf(table, id) == CHOOSE r \in Range(table) : r.id = id

\* C21: the store holds at most one QAPair for each question id
C21_AtMostOneQaPairPerQuestion ==
    \A i, j \in 1..Len(db_qa_pairs) :
        db_qa_pairs[i].question_id = db_qa_pairs[j].question_id => i = j

\* C22: the step of update_question leaves table qa_pairs, every field of
\* every QAPair, as it was
C22_QuestionEditLeavesQaPairs ==
    [][op'.name = "update_question" => db_qa_pairs' = db_qa_pairs]_vars

\* a question was edited after its QAPair was created: the pair still
\* carries the text the question had then
C22_Witness ==
    /\ op.name = "update_question"
    /\ \E i \in 1..Len(db_questions), j \in 1..Len(db_qa_pairs) :
          /\ db_qa_pairs[j].question_id = db_questions[i].id
          /\ db_questions[i].text = QText(9)
          /\ db_qa_pairs[j].question = QText(1)

\* C23: a question's status is pending_answer or answered, and it changes
\* only from pending_answer to answered
C23_QuestionStatusOnlyAdvances ==
    /\ [](\A k \in 1..Len(db_questions) :
             db_questions[k].status \in {"pending_answer", "answered"})
    /\ [][\A id \in Kept(db_questions, db_questions') :
             RowOf(db_questions', id).status # RowOf(db_questions, id).status
                => /\ RowOf(db_questions, id).status = "pending_answer"
                   /\ RowOf(db_questions', id).status = "answered"]_vars

\* C24: a QAPair's status changes only from pending_review to approved or
\* to discarded, whichever review operation is applied
C24_QaStatusOnlyLeavesPending ==
    [][\A id \in Kept(db_qa_pairs, db_qa_pairs') :
          RowOf(db_qa_pairs', id).status # RowOf(db_qa_pairs, id).status
             => /\ RowOf(db_qa_pairs, id).status = "pending_review"
                /\ RowOf(db_qa_pairs', id).status \in {"approved", "discarded"}]_vars

\* C28: every question whose status is answered has a QAPair whose
\* question_id is the question's id
C28_AnsweredQuestionsHaveQaPair ==
    \A k \in 1..Len(db_questions) :
        db_questions[k].status = "answered"
           => \E j \in 1..Len(db_qa_pairs) :
                 db_qa_pairs[j].question_id = db_questions[k].id

\* C29: a new QAPair has no date_reviewed, and the date_reviewed of a stored
\* pair changes in exactly the steps that change its status
C29_ReviewStampFollowsStatus ==
    [][/\ \A k \in 1..Len(db_qa_pairs') :
             RowsOf(db_qa_pairs, db_qa_pairs'[k].id) = {}
                => db_qa_pairs'[k].date_reviewed = NoDate
       /\ \A id \in Kept(db_qa_pairs, db_qa_pairs') :
             (RowOf(db_qa_pairs', id).date_reviewed # RowOf(db_qa_pairs, id).date_reviewed)
                <=> (RowOf(db_qa_pairs', id).status # RowOf(db_qa_pairs, id).status)]_vars

-----------------------------------------------------------------------------
(* Progress of the window of chunk_sections *)

\* C30: within a section the window start strictly increases from one pass
\* of the while loop to the next, so the passes over a section are finitely
\* many
C30_WindowStartIncreases ==
    [][(cpc = "while" /\ cpc' = "while" /\ Len(chunks') = Len(chunks) + 1)
          => start' > start]_vars

-----------------------------------------------------------------------------
(* The cost estimates (pipeline/question_gen.py, pipeline/answer_gen.py).  *)
(* Amounts are in millionths of a dollar, as in cost_estimate; round(x, 4) *)
(* of Python rounds a tie to the even digit, and Round4 rounds it up: the  *)
(* amounts below are multiples of 100 millionths, so no tie occurs.        *)

\* the item count n of an estimate, at most
MaxEstimate == 20

\* estimate_batch_cost(chunks), n being len(chunks)
estimate_batch_cost(n) ==
    LET total_input == n * 1500
        total_output == n * 2000
        cost == total_input * 3 + total_output * 15
    IN  [chunks |-> n,
         estimated_input_tokens |-> total_input,
         estimated_output_tokens |-> total_output,
         estimated_cost_usd |-> Round4(cost),
         estimated_time_seconds |-> n * 3]

\* an estimate rounded to cents
estimate_answer_cost_cents(num_questions) ==
    LET total_input == num_questions * 3000
        total_output == num_questions * 1000
        cost == total_input * 3 + total_output * 15
    IN  [questions |-> num_questions,
         estimated_input_tokens |-> total_input,
         estimated_output_tokens |-> total_output,
         estimated_cost_usd |-> ((cost + 5000) \div 10000) * 10000,
         estimated_time_seconds |-> num_questions * 4]

\* estimate_answer_cost(num_questions)
estimate_answer_cost(num_questions) ==
    LET total_input == num_questions * 3000
        total_output == num_questions * 1000
        cost == total_input * 3 + total_output * 15
    IN  [questions |-> num_questions,
         estimated_input_tokens |-> total_input,
         estimated_output_tokens |-> total_output,
         estimated_cost_usd |-> Round4(cost),
         estimated_time_seconds |-> num_questions * 4]

\* the item count of the next request: n for the first, 2n for the second
NextCount == (Len(est) + 1) * est_n

\* POST /api/questions/estimate for sources that hold NextCount chunks
estimate_cost ==
    /\ est_kind = "chunks"
    /\ Len(est) < 2
    /\ est' = Append(est, estimate_batch_cost(NextCount))
    /\ UNCHANGED <<est_n, est_kind>>
    /\ UNCHANGED notEst

\* POST /api/answers/estimate for NextCount question ids
estimate_answer_batch_cost ==
    /\ est_kind = "questions"
    /\ Len(est) < 2
    /\ est' = Append(est, estimate_answer_cost(NextCount))
    /\ UNCHANGED <<est_n, est_kind>>
    /\ UNCHANGED notEst

EstimateInit ==
    /\ ChunkIdle
    /\ RetrIdle
    /\ CurateIdle
    /\ BatchLocalsIdle
    /\ db_chunks = <<>>
    /\ db_questions = <<>>
    /\ db_qa_pairs = <<>>
    /\ now = 0
    /\ est_n \in 1..MaxEstimate
    /\ est_kind \in {"chunks", "questions"}
    /\ est = <<>>

EstimateNext ==
    \/ estimate_cost
    \/ estimate_answer_batch_cost

SpecEstimate == EstimateInit /\ [][EstimateNext]_vars

\* the tokens per item and the two prices per million tokens
TokensAndPrices(e, count, input, output) ==
    /\ e.estimated_input_tokens = input * count
    /\ e.estimated_output_tokens = output * count
    /\ e.estimated_cost_usd = input * count * 3 + output * count * 15

\* C27: the estimate of 2n items costs twice the estimate of n items; the
\* tokens are 1500 in / 2000 out per chunk and 3000 in / 1000 out per
\* question, at 3.0 and 15.0 per million tokens
C27_CostIsLinear ==
    /\ Len(est) = 2 => est[2].estimated_cost_usd = 2 * est[1].estimated_cost_usd
    /\ \A k \in 1..Len(est) :
          IF est_kind = "chunks"
          THEN TokensAndPrices(est[k], est[k].chunks, 1500, 2000)
          ELSE TokensAndPrices(est[k], est[k].questions, 3000, 1000)

\* both estimates were returned, for n and for 2n questions, n > 1
C27_Witness ==
    /\ est_kind = "questions"
    /\ Len(est) = 2
    /\ est[1].questions > 1
    /\ est[2].questions = 2 * est[1].questions

====
